---- MODULE Spec2Model ----
(***************************************************************************)
(* Model of the Simulo physics world synchronisation engine:               *)
(*   SimuloPhysicsServerRapier (identifier allocation, shape creation,     *)
(*   virtual springs, step / WorldUpdate production)                       *)
(* as found in src/client/src/SimuloViewerPIXI/index.ts.                   *)
(*                                                                         *)
(* Conventions                                                             *)
(*   - a 2D vector is a record [x, y] of integers;                         *)
(*   - a rotation is a number of quarter turns (angle = rotation * pi/2),  *)
(*     so that cos and sin are exact;                                      *)
(*   - a JS object used as a map is a function whose DOMAIN is its key set;*)
(*     where the code iterates a map, the key order is kept in a sequence; *)
(*   - a nullable number is a sequence of length 0 (null) or 1.            *)
(***************************************************************************)
EXTENDS Integers, Sequences, FiniteSets, TLC

\* ------------------------------------------------------------------ bounds
\* shapes created by callers after init()
MaxShapes == 1
\* springs added over the world's lifetime
MaxSprings == 1
\* direct getID calls by callers
MaxAllocs == 1
\* solver steps in which the black-box solver moves the dynamic bodies
MaxSolverMoves == 1
\* colliders callers take out of the live set
MaxRemovals == 1
\* setter calls made on spring handles
MaxSets == 1
\* calls delivered to tools
MaxToolCalls == 4
\* WorldUpdates the viewer processes
MaxUpdates == 2
\* controller.emit calls of the client plugin
MaxEmits == 2
\* 'tools' events the client plugin receives
MaxToolBars == 2
\* setColorCursor calls made after the constructor's
MaxCursors == 1
\* interval ticks that pan the camera
MaxPans == 1
\* callbacks registered at the viewer for one event
MaxListeners == 2
\* colliders a caller makes itself and pushes on `colliders`
MaxForeign == 1
\* getID calls where a claim is about many allocations
MaxPathAllocs == 12
\* springs added where a claim is about several springs at once
MaxRegistry == 2

VARIABLES
    world,            \* "null" | "World": SimuloPhysicsServerRapier.world
    bodies,           \* rigid bodies of the Rapier world, by handle 1..Len
    colliders,        \* SimuloPhysicsServerRapier.colliders
    changedContents,  \* SimuloPhysicsServerRapier.changedContents
    currentIDs,       \* SimuloPhysicsServerRapier.currentIDs
    springs,          \* keys of SimuloPhysicsServerRapier.springs, in insertion order
    springDescs,      \* the SimuloSpringDesc object of every spring handle, by id
    lastOp,           \* name of the operation that ran last
    lastError,        \* message of the Error it threw, "" when it returned
    lastId,           \* identifier the last getID call returned
    stepInfo,         \* SimuloPhysicsStepInfo the last successful step returned
    tickLog,          \* calls the last step made, in order (callbacks, world.step, drain)
    solverMoves,      \* number of solver steps that moved the bodies so far
    allocLog,         \* history: per container, the ids getID returned, in order
    emitted,          \* history: ids whose content some step has emitted
    fresh,            \* history: the [id, content] changes recorded since the last step
    removed,          \* history: the colliders callers took out of the live set
    drains,           \* history: sizes of the shapeContent maps of the latest run of
                      \*          consecutive steps (the last two of them)
    created,          \* history: number of shape creations callers attempted
    allocs,           \* history: number of getID calls callers made directly
    removals,         \* history: number of colliders callers removed
    sets,             \* history: number of setter calls made on spring handles
    players,          \* the connected players: player -> [tool, down]
    toolCalls,        \* history: the calls delivered to tools, in order
    tempGFXs,         \* SimuloViewerPIXI.tempGFXs
    viewport,         \* the children of SimuloViewerPIXI.viewport (the graphics shown)
    coll2gfx,         \* SimuloViewerPIXI.coll2gfx
    updates,          \* history: number of WorldUpdates the viewer has processed
    listeners,        \* SimuloViewerPIXI.listeners: event -> callbacks, in order
    previousMousePos, \* SimuloViewerPIXI.previousMousePos (screen space)
    center,           \* viewport.center: the world point at the middle of the screen
    panInputs,        \* SimuloViewerPIXI.panInputs
    emits,            \* history: the controller.emit calls of the client plugin
    dispatched,       \* the last updateMouse: the raw event it passed on, the
                      \*   callbacks it called, whether one of them threw
    toolBar,          \* children of the client plugin's toolBar element, in order
    toolElements,     \* SimuloPhysicsSandboxClientPlugin.toolElements
    cachedImages,     \* SimuloPhysicsSandboxClientPlugin.cachedImages: url -> text
    fetches,          \* history: url -> number of fetch(url) calls made
    cursors,          \* setColorCursor calls suspended at `await this.fetchSVG(image)`
    cursorCalls,      \* history: number of setColorCursor calls after the constructor's
    bodyCursor,       \* image of the cursor set on document.body, if any
    pending,          \* updateToolBar calls suspended at `await this.fetchSVG(...)`
    toolBars,         \* history: number of updateToolBar calls started
    lastTools,        \* history: the tool list of the latest 'tools' event, if any
    barsShown         \* utilityBar and toolBar have display 'flex'

vars == <<world, bodies, colliders, changedContents, currentIDs, springs,
          springDescs, lastOp, lastError, lastId, stepInfo, tickLog,
          solverMoves, allocLog, emitted, fresh, removed, drains, created, allocs,
          removals, sets, players, toolCalls, tempGFXs, viewport, coll2gfx, updates,
          listeners, previousMousePos, center, panInputs, emits, dispatched,
          toolBar, toolElements, cachedImages, pending, toolBars, lastTools,
          barsShown, fetches, cursors, cursorCalls, bodyCursor>>

shapeVars == <<bodies, colliders, changedContents, fresh, removed>>
idVars == <<currentIDs, allocLog>>
springVars == <<springs, springDescs>>
stepVars == <<stepInfo, tickLog, solverMoves, emitted>>
toolVars == <<players, toolCalls>>
viewerVars == <<tempGFXs, viewport, coll2gfx, updates>>
pointerVars == <<listeners, previousMousePos, center, panInputs, emits, dispatched>>
cursorVars == <<cursors, cursorCalls, bodyCursor>>
toolBarVars == <<toolBar, toolElements, cachedImages, pending, toolBars, lastTools,
                 barsShown, fetches, cursorVars>>
clientVars == <<pointerVars, toolBarVars>>
\* the state of the physics server
serverVars == <<world, bodies, colliders, changedContents, currentIDs, springs,
                springDescs, lastOp, lastError, lastId, stepInfo, tickLog,
                solverMoves, allocLog, emitted, fresh, removed, drains, created,
                allocs, removals, sets>>

\* ------------------------------------------------------------------ helpers
EmptyMap == [k \in {} |-> k]

Put(m, k, v) == [x \in (DOMAIN m) \cup {k} |-> IF x = k THEN v ELSE m[x]]

Vec(x, y) == [x |-> x, y |-> y]

Range(s) == {s[i] : i \in DOMAIN s}

\* `id?: string` left out by the caller
Undefined == "undefined"

\* messages of the Errors the code throws
NotInitialized == "init world first"
InvalidGeometry == "Failed to create collider"

\* ------------------------------------------------------------------ getID
\* getID(container, absolute): the [counter', id] it leaves and returns
GetIDNoIncrement(ids, container, absolute) ==
    LET cur == IF container \in DOMAIN ids /\ ids[container] # 0
               THEN ids[container] ELSE 0
    IN [ids |-> Put(ids, container, cur),
        id  |-> IF absolute THEN container \o ToString(cur) ELSE ToString(cur)]

GetIDShared(ids, container, absolute) ==
    LET cur == IF "/" \in DOMAIN ids /\ ids["/"] # 0 THEN ids["/"] ELSE 0
    IN [ids |-> Put(ids, "/", cur + 1),
        id  |-> IF absolute THEN container \o ToString(cur) ELSE ToString(cur)]

GetID(ids, container, absolute) ==
    LET cur == IF container \in DOMAIN ids /\ ids[container] # 0
               THEN ids[container] ELSE 0
    IN [ids |-> Put(ids, container, cur + 1),
        id  |-> IF absolute THEN container \o ToString(cur) ELSE ToString(cur)]

\* history of getID's results
Logged(log, container, id) ==
    Put(log, container,
        IF container \in DOMAIN log THEN Append(log[container], id) ELSE <<id>>)

\* ------------------------------------------------------------------ Rapier world
\* RAPIER.ShapeType values of the colliders this server creates
Cuboid == "Cuboid"
Ball == "Ball"
ConvexPolygon == "ConvexPolygon"
\* a RAPIER.ShapeType getShapeContent has no case for
Capsule == "Capsule"

\* cross product of (b - a) and (c - a): 0 iff a, b, c are collinear
Cross3(a, b, c) == (b.x - a.x) * (c.y - a.y) - (b.y - a.y) * (c.x - a.x)

\* p lies on the closed segment a-b
OnSegment(p, a, b) ==
    /\ Cross3(a, b, p) = 0
    /\ (p.x - a.x) * (p.x - b.x) + (p.y - a.y) * (p.y - b.y) <= 0

\* p lies in the closed triangle a, b, c (not collinear)
InTriangle(p, a, b, c) ==
    /\ Cross3(a, b, c) # 0
    /\ LET d1 == Cross3(a, b, p)
           d2 == Cross3(b, c, p)
           d3 == Cross3(c, a, p)
       IN \/ (d1 >= 0 /\ d2 >= 0 /\ d3 >= 0)
          \/ (d1 <= 0 /\ d2 <= 0 /\ d3 <= 0)

\* the points of a flat coordinate array [x0, y0, x1, y1, ...]
Unflatten(flat) == [i \in 1..(Len(flat) \div 2) |-> Vec(flat[2 * i - 1], flat[2 * i])]

RECURSIVE Flatten(_)
Flatten(points) ==
    IF points = <<>> THEN <<>>
    ELSE <<Head(points).x, Head(points).y>> \o Flatten(Tail(points))

RECURSIVE KeepIf(_, _)
KeepIf(seq, keep) ==
    IF seq = <<>> THEN <<>>
    ELSE IF Head(seq) \in keep THEN <<Head(seq)>> \o KeepIf(Tail(seq), keep \ {Head(seq)})
    ELSE KeepIf(Tail(seq), keep)

\* RAPIER.ColliderDesc.convexHull(flat): null (<<>>) when no hull with an area can be
\* derived from the points, else the descriptor's vertices (the extreme points)
ConvexHull(flat) ==
    LET pts == Unflatten(flat)
        P == Range(pts)
        degenerate == \A a \in P, b \in P, c \in P : Cross3(a, b, c) = 0
        extreme == {p \in P :
                      /\ ~ \E a \in P \ {p}, b \in P \ {p} : OnSegment(p, a, b)
                      /\ ~ \E a \in P \ {p}, b \in P \ {p}, c \in P \ {p} :
                              InTriangle(p, a, b, c)}
    IN IF degenerate THEN <<>> ELSE << Flatten(KeepIf(pts, extreme)) >>

\* the userData stashed on the body (bodyDesc.setUserData)
UserData(id, d) ==
    [id |-> id, color |-> d.color, alpha |-> d.alpha, border |-> d.border,
     name |-> d.name, sound |-> d.sound, borderWidth |-> d.borderWidth,
     borderScaleWithZoom |-> d.borderScaleWithZoom, image |-> d.image,
     zDepth |-> d.zDepth]

\* world.createRigidBody(bodyDesc): fixed or dynamic, at the given translation
RigidBody(id, d) ==
    [translation |-> d.position, rotation |-> 0, linvel |-> Vec(0, 0),
     isStatic |-> d.isStatic, userData |-> UserData(id, d)]

\* world.createCollider(colliderDesc, body)
Collider(parent, shape, d) ==
    [parent |-> parent, shape |-> shape, restitution |-> d.restitution,
     friction |-> d.friction, density |-> d.density]

CuboidShape(hx, hy) == [type |-> Cuboid, halfExtents |-> Vec(hx, hy)]
BallShape(r) == [type |-> Ball, radius |-> r]
ConvexPolygonShape(vertices) == [type |-> ConvexPolygon, vertices |-> vertices]
CapsuleShape(halfHeight, r) == [type |-> Capsule, halfHeight |-> halfHeight, radius |-> r]

\* ------------------------------------------------------------------ shape state
\* getShapeContent(collider): <<>> for null, else <<content>>
GetShapeContent(bs, collider) ==
    IF collider.parent \notin DOMAIN bs THEN <<>>
    ELSE
    LET bodyData == bs[collider.parent].userData
        shape == collider.shape
    IN CASE shape.type = Cuboid ->
              << [type |-> "rectangle", color |-> bodyData.color,
                  alpha |-> bodyData.alpha, border |-> bodyData.border,
                  id |-> bodyData.id, borderWidth |-> bodyData.borderWidth,
                  width |-> shape.halfExtents.x * 2,
                  height |-> shape.halfExtents.y * 2] >>
         [] shape.type = Ball ->
              << [type |-> "circle", color |-> bodyData.color,
                  alpha |-> bodyData.alpha, border |-> bodyData.border,
                  id |-> bodyData.id, borderWidth |-> bodyData.borderWidth,
                  radius |-> shape.radius] >>
         [] shape.type = ConvexPolygon ->
              << [type |-> "polygon", color |-> bodyData.color,
                  alpha |-> bodyData.alpha, border |-> bodyData.border,
                  id |-> bodyData.id, borderWidth |-> bodyData.borderWidth,
                  points |-> [i \in 1..((Len(shape.vertices) + 1) \div 2) |->
                                <<shape.vertices[2 * i - 1], shape.vertices[2 * i]>>]] >>
         [] OTHER -> <<>>

TransformProjected(body) ==
    [x |-> body.translation.x, y |-> - body.translation.y, angle |-> - body.rotation]

\* one entry of getShapeTransforms
Transform(body) ==
    [x |-> body.translation.x, y |-> body.translation.y, angle |-> body.rotation]

\* getShapeTransforms(): colliders.forEach writes transforms[data.id], a later
\* collider with the same id overwriting an earlier one
RECURSIVE GetShapeTransformsFrom(_, _, _)
GetShapeTransformsFrom(transforms, cs, bs) ==
    IF cs = <<>> THEN transforms
    ELSE LET collider == Head(cs)
         IN IF collider.parent \notin DOMAIN bs
            THEN GetShapeTransformsFrom(transforms, Tail(cs), bs)
            ELSE GetShapeTransformsFrom(
                     Put(transforms, bs[collider.parent].userData.id,
                         Transform(bs[collider.parent])),
                     Tail(cs), bs)

GetShapeTransforms(cs, bs) == GetShapeTransformsFrom(EmptyMap, cs, bs)

\* getShapeContents(): colliders.forEach writes contents[content.id] for every
\* collider getShapeContent has a content for
RECURSIVE GetShapeContentsFrom(_, _, _)
GetShapeContentsFrom(contents, cs, bs) ==
    IF cs = <<>> THEN contents
    ELSE LET content == GetShapeContent(bs, Head(cs))
         IN GetShapeContentsFrom(
                IF content # <<>> THEN Put(contents, content[1].id, content[1]) ELSE contents,
                Tail(cs), bs)

GetShapeContents(cs, bs) == GetShapeContentsFrom(EmptyMap, cs, bs)

\* ------------------------------------------------------------------ shape creation
\* The fields of the server a creation reads and writes, as one record; `error` is
\* the message of the Error thrown ("" when the call returned).
Server ==
    [world |-> world, bodies |-> bodies, colliders |-> colliders,
     changedContents |-> changedContents, currentIDs |-> currentIDs,
     allocLog |-> allocLog, fresh |-> fresh, error |-> ""]

ShapeIDFromCounter(s, d) ==
    LET got == GetID(s.currentIDs, "/", TRUE)
    IN [s EXCEPT !.currentIDs = got.ids,
                 !.allocLog = Logged(s.allocLog, "/", got.id)] @@ [id |-> got.id]

\* `desc.id ?? this.getID("/")`
ShapeID(s, d) ==
    IF d.id # Undefined
    THEN [s EXCEPT !.error = ""] @@ [id |-> d.id]
    ELSE LET got == GetID(s.currentIDs, "/", TRUE)
         IN [s EXCEPT !.currentIDs = got.ids,
                      !.allocLog = Logged(s.allocLog, "/", got.id)] @@ [id |-> got.id]

RegisterUnrecorded(s, id, coll) == [s EXCEPT !.colliders = Append(@, coll)]

\* this.colliders.push(coll); content = getShapeContent(coll);
\* if (content) this.changedContents[id] = content
Register(s, id, coll) ==
    LET content == GetShapeContent(s.bodies, coll)
    IN [s EXCEPT !.colliders = Append(@, coll),
                 !.changedContents = IF content # <<>> THEN Put(@, id, content[1]) ELSE @,
                 !.fresh = IF content # <<>>
                           THEN Append(@, [id |-> id, content |-> content[1]]) ELSE @]

\* addRectangle(rectangle)
AddRectangleUnguarded(s, rectangle) ==
         LET withId == ShapeID(s, rectangle)
             id == withId.id
             body == RigidBody(id, rectangle)
             s1 == [s EXCEPT !.currentIDs = withId.currentIDs,
                             !.allocLog = withId.allocLog,
                             !.bodies = Append(@, body)]
             coll == Collider(Len(s1.bodies),
                              CuboidShape(rectangle.width, rectangle.height), rectangle)
         IN Register(s1, id, coll)

\* addCircle(circle)
AddCircleUnguarded(s, circle) ==
         LET withId == ShapeID(s, circle)
             id == withId.id
             body == RigidBody(id, circle)
             s1 == [s EXCEPT !.currentIDs = withId.currentIDs,
                             !.allocLog = withId.allocLog,
                             !.bodies = Append(@, body)]
             coll == Collider(Len(s1.bodies), BallShape(circle.radius), circle)
         IN Register(s1, id, coll)

\* addPolygon(polygon): the identifier is taken and the body created before the
\* hull is computed
AddPolygonUnguarded(s, polygon) ==
         LET withId == ShapeID(s, polygon)
             id == withId.id
             body == RigidBody(id, polygon)
             s1 == [s EXCEPT !.currentIDs = withId.currentIDs,
                             !.allocLog = withId.allocLog,
                             !.bodies = Append(@, body)]
             colliderDesc == ConvexHull(Flatten(polygon.points))
         IN IF colliderDesc = <<>> THEN [s1 EXCEPT !.error = InvalidGeometry]
            ELSE Register(s1, id,
                          Collider(Len(s1.bodies),
                                   ConvexPolygonShape(colliderDesc[1]), polygon))

\* ------------------------------------------------------------------ springs
\* cos and sin of a rotation given in quarter turns
Cos4(q) == CASE q % 4 = 0 -> 1 [] q % 4 = 1 -> 0 [] q % 4 = 2 -> -1 [] OTHER -> 0
Sin4(q) == CASE q % 4 = 0 -> 0 [] q % 4 = 1 -> 1 [] q % 4 = 2 -> 0 [] OTHER -> -1

Sub(a, b) == Vec(a.x - b.x, a.y - b.y)
Dot(a, b) == a.x * b.x + a.y * b.y

\* getWorldPoint(bodyPosition, bodyRotation, localPoint)
GetWorldPoint(bodyPosition, bodyRotation, localPoint) ==
    Vec(localPoint.x * Cos4(bodyRotation) - localPoint.y * Sin4(bodyRotation)
          + bodyPosition.x,
        localPoint.x * Sin4(bodyRotation) + localPoint.y * Cos4(bodyRotation)
          + bodyPosition.y)

\* The capability callbacks of a SimuloSpringDesc are functions the caller supplies.
\* A callback is bound to a rigid body (kind "body") or to a fixed point such as a
\* cursor (kind "point"); or it throws (kind "throw"); or, an impulse callback, it
\* calls step() on the server unless a step it started is still running (kind "step").
Accessors ==
    {"getBodyAPosition", "getBodyBPosition", "getBodyARotation", "getBodyBRotation",
     "getBodyAVelocity", "getBodyBVelocity"}
Impulses == {"applyBodyAImpulse", "applyBodyBImpulse"}

\* message of the Error a throwing callback raises
CallbackThrew == "callback threw"

GetBodyPosition(bs, end) ==
    IF end.kind = "body" THEN bs[end.body].translation ELSE end.pos
GetBodyRotation(bs, end) ==
    IF end.kind = "body" THEN bs[end.body].rotation ELSE 0
GetBodyVelocity(bs, end) ==
    IF end.kind = "body" THEN bs[end.body].linvel ELSE Vec(0, 0)

\* magnitude(v) squared; magnitude(v) == 0 exactly when this is 0
Magnitude2(v) == v.x * v.x + v.y * v.y

\* A force magnitude is kept exact as [p, q] standing for (p + q * distance) / distance,
\* and a force vector as [vec, p, q, s] standing for vec * (p + q * sqrt(s)) / s, where
\* s = distance^2 and vec / sqrt(s) is the normalized spring vector.
\*   stiffness * (distance - targetLength) - damping * (dot(springVector, velA) / distance)
ForceMagnitudeA(spring, springVector, velA) ==
    [p |-> spring.stiffness * Magnitude2(springVector)
             - spring.damping * Dot(springVector, velA),
     q |-> - spring.stiffness * spring.targetLength]

\*  -stiffness * (distance - targetLength) - damping * (dot(springVector, velB) / distance)
ForceMagnitudeBSameSign(spring, springVector, velB) ==
    [p |-> spring.stiffness * Magnitude2(springVector)
             - spring.damping * Dot(springVector, velB),
     q |-> - spring.stiffness * spring.targetLength]

ForceMagnitudeB(spring, springVector, velB) ==
    [p |-> - spring.stiffness * Magnitude2(springVector)
             - spring.damping * Dot(springVector, velB),
     q |-> spring.stiffness * spring.targetLength]

\* multiply(normalize(springVector), forceMagnitude)
Force(springVector, mag) ==
    [vec |-> springVector, p |-> mag.p, q |-> mag.q, s |-> Magnitude2(springVector)]

\* applySpringForce(spring): the impulse callbacks it invokes, in order
ApplySpringForceAlways(bs, id, spring) ==
    LET pointAWorld == GetWorldPoint(GetBodyPosition(bs, spring.getBodyAPosition),
                                     GetBodyRotation(bs, spring.getBodyARotation), spring.localAnchorA)
        pointBWorld == GetWorldPoint(GetBodyPosition(bs, spring.getBodyBPosition),
                                     GetBodyRotation(bs, spring.getBodyBRotation), spring.localAnchorB)
        velA == GetBodyVelocity(bs, spring.getBodyAVelocity)
        velB == GetBodyVelocity(bs, spring.getBodyBVelocity)
        springVector == Sub(pointBWorld, pointAWorld)
    IN << [call |-> "applyBodyAImpulse", spring |-> id,
           impulse |-> Force(springVector, ForceMagnitudeA(spring, springVector, velA)),
           worldPoint |-> pointAWorld],
          [call |-> "applyBodyBImpulse", spring |-> id,
           impulse |-> Force(springVector, ForceMagnitudeB(spring, springVector, velB)),
           worldPoint |-> pointBWorld] >>

ApplySpringForce(bs, id, spring) ==
    LET pointAWorld == GetWorldPoint(GetBodyPosition(bs, spring.getBodyAPosition),
                                     GetBodyRotation(bs, spring.getBodyARotation), spring.localAnchorA)
        pointBWorld == GetWorldPoint(GetBodyPosition(bs, spring.getBodyBPosition),
                                     GetBodyRotation(bs, spring.getBodyBRotation), spring.localAnchorB)
        velA == GetBodyVelocity(bs, spring.getBodyAVelocity)
        velB == GetBodyVelocity(bs, spring.getBodyBVelocity)
        springVector == Sub(pointBWorld, pointAWorld)
    IN IF Magnitude2(springVector) = 0 THEN <<>>
       ELSE << [call |-> "applyBodyAImpulse", spring |-> id,
                impulse |-> Force(springVector,
                                  ForceMagnitudeA(spring, springVector, velA)),
                worldPoint |-> pointAWorld],
               [call |-> "applyBodyBImpulse", spring |-> id,
                impulse |-> Force(springVector,
                                  ForceMagnitudeB(spring, springVector, velB)),
                worldPoint |-> pointBWorld] >>

\* A run of step() is the record r of what it has done so far: the bodies and the
\* pending content it works on, the calls it has made, the message of the Error that
\* ended it ("" while it runs) and the SimuloPhysicsStepInfo it returns.
RECURSIVE StepRun(_, _, _, _)

\* an impulse callback cb is called (entry is the call): it returns, it throws, or
\* it calls step(), whose result it drops
Invoke(r, cb, entry, motion, ms, nested) ==
    LET called == [r EXCEPT !.calls = Append(@, entry)]
    IN CASE cb.kind = "throw" -> [called EXCEPT !.error = CallbackThrew]
         [] cb.kind = "step" /\ ~nested ->
              LET inner == StepRun([called EXCEPT !.calls = Append(@, [call |-> "step"])],
                                   motion, ms, TRUE)
              IN IF inner.error # "" THEN inner
                 ELSE [inner EXCEPT !.calls = Append(@, [call |-> "return"]),
                                    !.info = r.info]
         [] OTHER -> called

\* this.applySpringForce(spring) within a run: the accessors are called, then, unless
\* the distance is 0, the two impulse callbacks
CallApplySpringForce(r, id, spring, motion, ms, nested) ==
    IF \E f \in Accessors : spring[f].kind = "throw"
    THEN [r EXCEPT !.error = CallbackThrew]
    ELSE LET impulses == ApplySpringForce(r.bodies, id, spring)
         IN IF impulses = <<>> THEN r
            ELSE LET a == Invoke(r, spring.applyBodyAImpulse, impulses[1],
                                 motion, ms, nested)
                 IN IF a.error # "" THEN a
                    ELSE Invoke(a, spring.applyBodyBImpulse, impulses[2],
                                motion, ms, nested)

\* Object.values(this.springs).forEach(applySpringForce)
RECURSIVE ApplySprings(_, _, _, _, _, _)
ApplySprings(r, ids, descs, motion, ms, nested) ==
    IF ids = <<>> \/ r.error # "" THEN r
    ELSE ApplySprings(
             CallApplySpringForce(r, Head(ids), descs[Head(ids)], motion, ms, nested),
             Tail(ids), descs, motion, ms, nested)

\* the render segment of one spring (step(), the springs field)
SpringInfo(bs, spring) ==
    [pointA |-> GetWorldPoint(GetBodyPosition(bs, spring.getBodyAPosition),
                              GetBodyRotation(bs, spring.getBodyARotation), spring.localAnchorA),
     pointB |-> GetWorldPoint(GetBodyPosition(bs, spring.getBodyBPosition),
                              GetBodyRotation(bs, spring.getBodyBRotation), spring.localAnchorB)]

\* ------------------------------------------------------------------ solver
\* world.step() is a black box: it leaves the bodies at rest, or moves every dynamic
\* body (one unit down, a quarter turn round).
Motions == {"rest", "move"}

SolverStep(bs, motion) ==
    [h \in DOMAIN bs |->
        IF bs[h].isStatic \/ motion = "rest" THEN [bs[h] EXCEPT !.linvel = Vec(0, 0)]
        ELSE [bs[h] EXCEPT !.translation = Vec(@.x, @.y - 1),
                           !.rotation = (@ + 1) % 4,
                           !.linvel = Vec(0, -1)]]

\* ------------------------------------------------------------------ inputs
\* result of randomColor(...) in init()
RandomColor == 8421504

\* BaseShapeData; friction, restitution and density are in tenths
Base(id, color, position, isStatic) ==
    [id |-> id, name |-> "joe", sound |-> "test", color |-> color, alpha |-> 1,
     border |-> <<>>, borderWidth |-> <<1>>, borderScaleWithZoom |-> TRUE,
     image |-> <<>>, zDepth |-> 0, position |-> position, isStatic |-> isStatic,
     friction |-> 5, restitution |-> 5, density |-> 10]

RectangleData(base, width, height) == base @@ [width |-> width, height |-> height]
CircleData(base, radius) == base @@ [radius |-> radius]
PolygonData(base, points) == base @@ [points |-> points]

\* the four shapes init() creates
GroundPlane == RectangleData(Base(Undefined, 10595578, Vec(0, -510), TRUE), 1000, 500)
BodyA == RectangleData(Base(Undefined, RandomColor, Vec(-3, 10), FALSE), 5, 1)
BodyB == RectangleData(Base(Undefined, RandomColor, Vec(5, 5), FALSE), 1, 1)
BodyC == CircleData(Base(Undefined, RandomColor, Vec(0, 0), FALSE), 3)

\* identifiers a caller supplies: none, or one the "/" counter also generates
SuppliedIds == {Undefined, "/0"}

TriangleWithInnerPoint == <<Vec(0, 0), Vec(4, 0), Vec(1, 1), Vec(0, 4)>>
Collinear == <<Vec(0, 0), Vec(1, 1), Vec(2, 2)>>

RectangleInputs ==
    {RectangleData(Base(id, 255, Vec(0, 4), TRUE), 2, 1) : id \in SuppliedIds}
CircleInputs ==
    {CircleData(Base(Undefined, 65280, Vec(3, 0), FALSE), 1)}
PolygonInputs ==
    {PolygonData(Base(Undefined, 16711680, Vec(0, 0), FALSE), points) :
        points \in {TriangleWithInnerPoint, Collinear}}

\* a capsule a caller makes through the public `world`, with an id of its own
CapsuleInputs ==
    {Base("capsule", 255, Vec(2, 2), FALSE) @@ [halfHeight |-> 1, radius |-> 1]}

\* two containers, one's path the other's followed by a digit
Paths == {"/", "/1"}

\* container paths callers allocate in
Containers == {"/", "/1/"}

\* ends of a spring: a body of the world, or a fixed point
BodyEnd(h) == [kind |-> "body", body |-> h, pos |-> Vec(0, 0)]
PointEnd(p) == [kind |-> "point", body |-> 0, pos |-> p]

\* a SimuloSpringDesc whose four A callbacks are bound to endA and four B callbacks
\* to endB
SpringDesc(endA, endB, localAnchorA, localAnchorB) ==
    [getBodyAPosition |-> endA, getBodyBPosition |-> endB,
     getBodyARotation |-> endA, getBodyBRotation |-> endB,
     getBodyAVelocity |-> endA, getBodyBVelocity |-> endB,
     applyBodyAImpulse |-> endA, applyBodyBImpulse |-> endB,
     localAnchorA |-> localAnchorA, localAnchorB |-> localAnchorB,
     stiffness |-> 50, damping |-> 5, targetLength |-> 2]

\* two fixed points 5 apart; a cursor at the origin, where init() puts the circle;
\* bodyA to bodyB from an off-centre anchor; both ends on the same point of the circle
SpringInputs ==
    {SpringDesc(PointEnd(Vec(0, 0)), PointEnd(Vec(3, 4)), Vec(0, 0), Vec(0, 0)),
     SpringDesc(PointEnd(Vec(0, 0)), BodyEnd(4), Vec(0, 0), Vec(0, 0)),
     SpringDesc(BodyEnd(2), BodyEnd(3), Vec(1, 0), Vec(0, 0)),
     SpringDesc(BodyEnd(4), BodyEnd(4), Vec(1, 0), Vec(1, 0))}

\* callbacks a caller may put in a spring: one that throws, and an impulse callback
\* that steps the server
Throwing == [kind |-> "throw", body |-> 0, pos |-> Vec(0, 0)]
Reentrant == [kind |-> "step", body |-> 0, pos |-> Vec(0, 0)]

\* the properties of a SimuloSpring handle (one getter and one setter each)
Properties ==
    Accessors \cup Impulses
      \cup {"localAnchorA", "localAnchorB", "stiffness", "damping", "targetLength"}

\* values callers assign through the setters
SetterValues(property) ==
    CASE property = "targetLength" -> {5}
      [] property = "stiffness" -> {20}
      [] property = "damping" -> {0}
      [] property \in {"localAnchorA", "localAnchorB"} -> {Vec(0, 1)}
      [] property \in Accessors \cup Impulses -> {PointEnd(Vec(1, 1))}

\* one property of each kind the handle has: the three numbers, an anchor, an
\* accessor, an impulse callback
PropertyKinds ==
    {"stiffness", "damping", "targetLength", "localAnchorA", "getBodyBPosition",
     "applyBodyAImpulse"}

\* callbacks that do not simply return
Misbehaving == {Reentrant, Throwing}

\* the springs whose handles callers go on to use: the two that start stretched
StretchedSprings ==
    {SpringDesc(PointEnd(Vec(0, 0)), PointEnd(Vec(3, 4)), Vec(0, 0), Vec(0, 0)),
     SpringDesc(BodyEnd(2), BodyEnd(3), Vec(1, 0), Vec(0, 0))}

\* wall-clock durations of a step, in ms
Durations == {16}

AddRectangleNoGuard(s, rectangle) == AddRectangleUnguarded(s, rectangle)

\* the `if (!this.world) { throw new Error('init world first'); }` of each creation
AddRectangle(s, rectangle) ==
    IF s.world = "null" THEN [s EXCEPT !.error = NotInitialized]
    ELSE AddRectangleUnguarded(s, rectangle)

AddCircle(s, circle) ==
    IF s.world = "null" THEN [s EXCEPT !.error = NotInitialized]
    ELSE AddCircleUnguarded(s, circle)

AddPolygon(s, polygon) ==
    IF s.world = "null" THEN [s EXCEPT !.error = NotInitialized]
    ELSE AddPolygonUnguarded(s, polygon)

\* ------------------------------------------------------------------ step
\* `let changed = this.changedContents; this.changedContents = {};`
KeepChanged(cc) == cc
DrainChanged(cc) == EmptyMap

\* the SimuloPhysicsStepInfo step() returns
StepInfo(changed, cs, bs, ids, descs, ms) ==
    [delta |-> [shapeContent |-> changed,
                shapeTransforms |-> GetShapeTransforms(cs, bs)],
     ms |-> ms,
     springs |-> [i \in DOMAIN ids |-> SpringInfo(bs, descs[ids[i]])]]

StepRunStale(r, motion, ms, nested) ==
    LET applied == ApplySprings(r, springs, springDescs, motion, ms, nested)
    IN IF applied.error # "" THEN applied
       ELSE [applied EXCEPT
               !.calls = Append(@, [call |-> "world.step"]),
               !.bodies = SolverStep(applied.bodies, motion),
               !.changedContents = DrainChanged(@),
               !.info = StepInfo(applied.changedContents, colliders, applied.bodies,
                                 springs, springDescs, ms)]

\* step() past its guard, as a run: springs, world.step(), drain, transforms, segments
StepRun(r, motion, ms, nested) ==
    LET applied == ApplySprings(r, springs, springDescs, motion, ms, nested)
    IN IF applied.error # "" THEN applied
       ELSE LET stepped == SolverStep(applied.bodies, motion)
            IN [applied EXCEPT
                  !.calls = Append(@, [call |-> "world.step"]),
                  !.bodies = stepped,
                  !.changedContents = DrainChanged(@),
                  !.info = StepInfo(applied.changedContents, colliders, stepped,
                                    springs, springDescs, ms)]

\* step() past its guard, called by the driver
StepUnguarded(motion, ms) ==
    StepRun([error |-> "", calls |-> <<>>, bodies |-> bodies,
             changedContents |-> changedContents, info |-> stepInfo],
            motion, ms, FALSE)

StepNoGuard(motion, ms) == StepUnguarded(motion, ms)

\* step()
StepOutcome(motion, ms) ==
    IF world = "null"
    THEN [error |-> NotInitialized, calls |-> <<>>, bodies |-> bodies,
          changedContents |-> changedContents, info |-> stepInfo]
    ELSE StepUnguarded(motion, ms)

\* the value of stepInfo before any step has returned
NoStepInfo ==
    [delta |-> [shapeContent |-> EmptyMap, shapeTransforms |-> EmptyMap],
     ms |-> 0, springs |-> <<>>]

\* ------------------------------------------------------------------ actions
Commit(s, op) ==
    /\ bodies' = s.bodies
    /\ colliders' = s.colliders
    /\ changedContents' = s.changedContents
    /\ currentIDs' = s.currentIDs
    /\ allocLog' = s.allocLog
    /\ fresh' = s.fresh
    /\ lastOp' = op
    /\ lastError' = s.error
    /\ drains' = <<>>
    /\ removed' = removed

\* async init(): the world, then the ground plane and three bodies
InitWorld ==
    /\ world = "null"
    /\ world' = "World"
    /\ LET s0 == [Server EXCEPT !.world = "World"]
           s1 == AddRectangle(s0, GroundPlane)
           s2 == AddRectangle(s1, BodyA)
           s3 == AddRectangle(s2, BodyB)
           s4 == AddCircle(s3, BodyC)
       IN Commit(s4, "init")
    /\ UNCHANGED <<springVars, stepVars, lastId, created, allocs, removals,
                   sets, toolVars, viewerVars, clientVars>>

CreateRectangle(rectangle) ==
    /\ created < MaxShapes
    /\ created' = created + 1
    /\ Commit(AddRectangle(Server, rectangle), "addRectangle")
    /\ UNCHANGED <<world, springVars, stepVars, lastId, allocs, removals,
                   sets, toolVars, viewerVars, clientVars>>

CreateCircle(circle) ==
    /\ created < MaxShapes
    /\ created' = created + 1
    /\ Commit(AddCircle(Server, circle), "addCircle")
    /\ UNCHANGED <<world, springVars, stepVars, lastId, allocs, removals,
                   sets, toolVars, viewerVars, clientVars>>

CreatePolygon(polygon) ==
    /\ created < MaxShapes
    /\ created' = created + 1
    /\ Commit(AddPolygon(Server, polygon), "addPolygon")
    /\ UNCHANGED <<world, springVars, stepVars, lastId, allocs, removals,
                   sets, toolVars, viewerVars, clientVars>>

\* a caller takes a collider out of the public `colliders` array
RemoveCollider(i) ==
    /\ removals < MaxRemovals
    /\ removals' = removals + 1
    /\ i \in DOMAIN colliders
    /\ colliders' = SubSeq(colliders, 1, i - 1) \o SubSeq(colliders, i + 1, Len(colliders))
    /\ removed' = removed \cup {colliders[i]}
    /\ lastOp' = "removeCollider"
    /\ lastError' = ""
    /\ drains' = <<>>
    /\ UNCHANGED <<world, bodies, changedContents, fresh, idVars, springVars, stepVars,
                   lastId, created, allocs,
                   sets, toolVars, viewerVars, clientVars>>

\* a caller makes a body and a collider of a kind no creation function makes,
\* through the public `world`, and pushes the collider on the public `colliders`
PushCollider(capsule) ==
    /\ world # "null"
    /\ Cardinality({i \in DOMAIN colliders : colliders[i].shape.type = Capsule}) < MaxForeign
    /\ bodies' = Append(bodies, RigidBody(capsule.id, capsule))
    /\ colliders' = Append(colliders,
                           Collider(Len(bodies) + 1,
                                    CapsuleShape(capsule.halfHeight, capsule.radius),
                                    capsule))
    /\ lastOp' = "pushCollider"
    /\ lastError' = ""
    /\ drains' = <<>>
    /\ UNCHANGED <<world, changedContents, fresh, removed, idVars, springVars, stepVars,
                   lastId, created, allocs, removals,
                   sets, toolVars, viewerVars, clientVars>>

\* a caller calls getID(container, absolute), while fewer than limit such calls
\* were made
AllocateWithin(container, absolute, limit) ==
    /\ allocs < limit
    /\ allocs' = allocs + 1
    /\ LET got == GetID(currentIDs, container, absolute)
       IN /\ currentIDs' = got.ids
          /\ lastId' = got.id
          /\ allocLog' = Logged(allocLog, container, got.id)
    /\ lastOp' = "getID"
    /\ lastError' = ""
    /\ drains' = <<>>
    /\ UNCHANGED <<world, shapeVars, springVars, stepVars, created, removals,
                   sets, toolVars, viewerVars, clientVars>>

\* a caller calls getID(container, absolute)
Allocate(container, absolute) == AllocateWithin(container, absolute, MaxAllocs)

\* addSpring(spring), while fewer than limit springs were added: the ends' callbacks
\* need their bodies to exist
AddSpringWithin(spring, limit) ==
    /\ Cardinality(DOMAIN springDescs) < limit
    /\ \A f \in Accessors \cup Impulses :
          spring[f].kind = "body" => spring[f].body \in DOMAIN bodies
    /\ LET got == GetID(currentIDs, "/", TRUE)
       IN /\ currentIDs' = got.ids
          /\ allocLog' = Logged(allocLog, "/", got.id)
          /\ springs' = IF got.id \in Range(springs) THEN springs
                        ELSE Append(springs, got.id)
          /\ springDescs' = Put(springDescs, got.id, spring)
    /\ lastOp' = "addSpring"
    /\ lastError' = ""
    /\ drains' = <<>>
    /\ UNCHANGED <<world, shapeVars, stepVars, lastId, created, allocs, removals,
                   sets, toolVars, viewerVars, clientVars>>

\* addSpring(spring)
AddSpring(spring) == AddSpringWithin(spring, MaxSprings)

DestroySpringAndRest(id) ==
    /\ id \in DOMAIN springDescs
    /\ springs' = <<>>
    /\ lastOp' = "destroy"
    /\ lastError' = ""
    /\ drains' = <<>>
    /\ UNCHANGED <<world, shapeVars, idVars, springDescs, stepVars, lastId, created,
                   allocs, removals,
                   sets, toolVars, viewerVars, clientVars>>

\* SimuloSpring.destroy(): delete this.server.springs[this.id]
DestroySpring(id) ==
    /\ id \in DOMAIN springDescs
    /\ springs' = SelectSeq(springs, LAMBDA k : k # id)
    /\ lastOp' = "destroy"
    /\ lastError' = ""
    /\ drains' = <<>>
    /\ UNCHANGED <<world, shapeVars, idVars, springDescs, stepVars, lastId, created,
                   allocs, removals,
                   sets, toolVars, viewerVars, clientVars>>

\* this.server.springs[id] = desc: an id the registry has keeps its place, a new one
\* goes last
Publish(ids, id) == IF id \in Range(ids) THEN ids ELSE Append(ids, id)

RepublishAlways(ids, id) == Publish(ids, id)

\* if (this.server.springs[this.id]) { this.server.springs[this.id] = this.desc; }
Republish(ids, id) == IF id \in Range(ids) THEN Publish(ids, id) ELSE ids

SetPropertyDropped(desc, property, value) == desc

\* SimuloSpring `set property(value)`: this.desc.property = value
SetProperty(desc, property, value) == [desc EXCEPT ![property] = value]

\* SimuloSpring `get property()`: this.desc.property, as <<value>> (<<>> for nothing)
GetProperty(descs, id, property) == << descs[id][property] >>

\* a setter of the handle of spring id is called.  The handle's desc is the object
\* addSpring stored under the id, so `if (this.server.springs[this.id])
\* this.server.springs[this.id] = this.desc` stores the object an existing entry
\* already holds, and puts back nothing once the entry is deleted.
SetSpring(id, property, value) ==
    /\ sets < MaxSets
    /\ sets' = sets + 1
    /\ id \in DOMAIN springDescs
    /\ springDescs' = [springDescs EXCEPT ![id] = SetProperty(@, property, value)]
    /\ springs' = Republish(springs, id)
    /\ lastOp' = "set"
    /\ lastError' = ""
    /\ drains' = <<>>
    /\ UNCHANGED <<world, shapeVars, idVars, stepVars, lastId, created, allocs,
                   removals, toolVars, viewerVars, clientVars>>

\* step()
Step(motion, ms) ==
    /\ motion # "rest" => solverMoves < MaxSolverMoves
    /\ LET out == StepOutcome(motion, ms)
       IN /\ lastError' = out.error
          /\ tickLog' = out.calls
          /\ bodies' = out.bodies
          /\ changedContents' = out.changedContents
          /\ stepInfo' = out.info
          /\ emitted' = IF out.error = "" THEN emitted \cup DOMAIN out.info.delta.shapeContent
                        ELSE emitted
          /\ fresh' = IF out.error = "" THEN <<>> ELSE fresh
          /\ drains' = IF out.error # "" THEN <<>>
                        ELSE LET n == Cardinality(DOMAIN out.info.delta.shapeContent)
                             IN IF drains = <<>> THEN <<n>>
                                ELSE <<drains[Len(drains)], n>>
          /\ solverMoves' = IF out.error = "" /\ motion # "rest"
                            THEN solverMoves + 1 ELSE solverMoves
    /\ lastOp' = "step"
    /\ UNCHANGED <<world, colliders, removed, idVars, springVars, lastId, created,
                   allocs, removals,
                   sets, toolVars, viewerVars, clientVars>>

\* ------------------------------------------------------------------ tools
\* The viewer reports the pointer and the tool bar to the controller; the controller
\* behind it keeps each player's selected tool and whether the primary input is
\* held, and calls the tools (PhysicsSandboxTool).
Players == {"p1"}
Tools == {"drag", "spring"}
Buttons == {0, 2}

ClientEmitsAny(event, button) == TRUE

\* the client plugin passes pointerdown and pointerup on for the primary button only,
\* and every pointermove
ClientEmits(event, button) == event = "pointermove" \/ button = 0

ToolCall(tool, call, player, synthetic) ==
    [tool |-> tool, call |-> call, player |-> player, synthetic |-> synthetic]

ReleasedNever(ps, player) == <<>>

\* the playerUp owed to a player's tool when the player stops using it (switches
\* tool or leaves) with the primary input held
Released(ps, player) ==
    IF ps[player].down
    THEN << ToolCall(ps[player].tool, "playerUp", player, TRUE) >>
    ELSE <<>>

PlayerJoin(player, tool) ==
    /\ player \notin DOMAIN players
    /\ players' = Put(players, player, [tool |-> tool, down |-> FALSE])
    /\ UNCHANGED <<serverVars, toolCalls, viewerVars, clientVars>>

\* 'player_down': the selected tool's playerDown
PlayerDown(player, button) ==
    /\ player \in DOMAIN players
    /\ ClientEmits("pointerdown", button)
    /\ Len(toolCalls) < MaxToolCalls
    /\ players' = [players EXCEPT ![player].down = TRUE]
    /\ toolCalls' = Append(toolCalls,
                           ToolCall(players[player].tool, "playerDown", player, FALSE))
    /\ UNCHANGED <<serverVars, viewerVars, clientVars>>

\* 'player_move': the selected tool's playerMove, whether or not the input is held
PlayerMove(player) ==
    /\ player \in DOMAIN players
    /\ ClientEmits("pointermove", 0)
    /\ Len(toolCalls) < MaxToolCalls
    /\ toolCalls' = Append(toolCalls,
                           ToolCall(players[player].tool, "playerMove", player, FALSE))
    /\ UNCHANGED <<serverVars, players, viewerVars, clientVars>>

\* 'player_up': the selected tool's playerUp
PlayerUp(player, button) ==
    /\ player \in DOMAIN players
    /\ ClientEmits("pointerup", button)
    /\ Len(toolCalls) < MaxToolCalls
    /\ players' = [players EXCEPT ![player].down = FALSE]
    /\ toolCalls' = Append(toolCalls,
                           ToolCall(players[player].tool, "playerUp", player, FALSE))
    /\ UNCHANGED <<serverVars, viewerVars, clientVars>>

\* 'player_tool' (a click on the tool bar): the previous tool is released first
PlayerTool(player, tool) ==
    /\ player \in DOMAIN players
    /\ tool # players[player].tool
    /\ Len(toolCalls) + Len(Released(players, player)) <= MaxToolCalls
    /\ toolCalls' = toolCalls \o Released(players, player)
    /\ players' = [players EXCEPT ![player].tool = tool]
    /\ UNCHANGED <<serverVars, viewerVars, clientVars>>

\* the player leaves the room: the tool is released
PlayerLeave(player) ==
    /\ player \in DOMAIN players
    /\ Len(toolCalls) + Len(Released(players, player)) <= MaxToolCalls
    /\ toolCalls' = toolCalls \o Released(players, player)
    /\ players' = [q \in DOMAIN players \ {player} |-> players[q]]
    /\ UNCHANGED <<serverVars, viewerVars, clientVars>>

\* ------------------------------------------------------------------ viewer
\* A PIXI.Graphics object is known by where it was made: the update that made it,
\* what for ("shape", "line", "overlay"), and the shape id or the index it was made for.
Graphics(update, kind, index, id) ==
    [update |-> update, kind |-> kind, index |-> index, id |-> id]

\* what tools overlay on an update: nothing, or one shape
OverlayShape ==
    [content |-> [type |-> "circle", color |-> 16777215, alpha |-> 1, border |-> <<>>,
                  id |-> "overlay", borderWidth |-> <<1>>, radius |-> 1],
     transform |-> [x |-> 2, y |-> 3, angle |-> 1]]
OverlayInputs ==
    {[shapes |-> <<>>, texts |-> <<>>], [shapes |-> <<OverlayShape>>, texts |-> <<>>]}

\* the WorldUpdate made of the server's step info and the tools' overlays
WorldUpdate(info, overlays) ==
    [delta |-> info.delta, springs |-> info.springs, overlays |-> overlays]

\* addShape that leaves the graphics an id had on the viewport
AddShapesOver(view, shapeContent, u) ==
    LET ids == {shapeContent[key].id : key \in DOMAIN shapeContent}
    IN [view EXCEPT
          !.coll2gfx = [id \in DOMAIN view.coll2gfx \cup ids |->
                           IF id \in ids
                           THEN [gfx |-> Graphics(u, "shape", 0, id),
                                 content |-> shapeContent[
                                     CHOOSE key \in DOMAIN shapeContent :
                                         shapeContent[key].id = id],
                                 x |-> 0, y |-> 0, rotation |-> 0]
                           ELSE view.coll2gfx[id]],
          !.viewport = @ \cup {Graphics(u, "shape", 0, id) : id \in ids}]

\* addShape(content) for every entry of shapeContent: the graphics content.id had
\* is taken off the viewport, a new one is rendered, kept under content.id and shown
\* (the server keys every content by its id, so no two entries share one)
AddShapes(view, shapeContent, u) ==
    LET ids == {shapeContent[key].id : key \in DOMAIN shapeContent}
        replaced == {view.coll2gfx[id].gfx : id \in ids \cap DOMAIN view.coll2gfx}
        made == [id \in ids |->
                    LET key == CHOOSE key \in DOMAIN shapeContent : shapeContent[key].id = id
                    IN [gfx |-> Graphics(u, "shape", 0, id), content |-> shapeContent[key],
                        x |-> 0, y |-> 0, rotation |-> 0]]
    IN [view EXCEPT
          !.coll2gfx = [id \in DOMAIN view.coll2gfx \cup DOMAIN made |->
                           IF id \in DOMAIN made THEN made[id] ELSE view.coll2gfx[id]],
          !.viewport = (@ \ replaced) \cup {made[id].gfx : id \in DOMAIN made}]

\* updatePositions(transformData): known graphics are moved, y and angle negated
UpdatePositions(view, transformData) ==
    [view EXCEPT
       !.coll2gfx = [id \in DOMAIN @ |->
                        IF id \in DOMAIN transformData
                        THEN [@[id] EXCEPT !.x = transformData[id].x,
                                           !.y = - transformData[id].y,
                                           !.rotation = - transformData[id].angle]
                        ELSE @[id]]]

KeepTemp(view) == view

\* this.tempGFXs.forEach(gfx => viewport.removeChild(gfx)); this.tempGFXs = []
ClearTemp(view) ==
    [view EXCEPT !.viewport = @ \ {view.tempGFXs[i].gfx : i \in DOMAIN view.tempGFXs},
                 !.tempGFXs = <<>>]

\* one line per spring, from (pointA.x, -pointA.y) to (pointB.x, -pointB.y)
DrawSprings(view, segments, u) ==
    LET lines == [i \in DOMAIN segments |->
                     [gfx |-> Graphics(u, "line", i, ""),
                      from |-> Vec(segments[i].pointA.x, - segments[i].pointA.y),
                      to |-> Vec(segments[i].pointB.x, - segments[i].pointB.y)]]
    IN [view EXCEPT !.tempGFXs = @ \o lines,
                    !.viewport = @ \cup {lines[i].gfx : i \in DOMAIN lines}]

\* one rendered shape per overlay shape, placed at its transform
DrawOverlays(view, shapes, u) ==
    LET drawn == [i \in DOMAIN shapes |->
                     [gfx |-> Graphics(u, "overlay", i, ""),
                      content |-> shapes[i].content,
                      x |-> shapes[i].transform.x,
                      y |-> - shapes[i].transform.y,
                      rotation |-> - shapes[i].transform.angle]]
    IN [view EXCEPT !.tempGFXs = @ \o drawn,
                    !.viewport = @ \cup {drawn[i].gfx : i \in DOMAIN drawn}]

\* SimuloViewerPIXI.update(worldUpdate)
Update(view, worldUpdate, u) ==
    LET added == AddShapes(view, worldUpdate.delta.shapeContent, u)
        moved == UpdatePositions(added, worldUpdate.delta.shapeTransforms)
        cleared == ClearTemp(moved)
        lined == DrawSprings(cleared, worldUpdate.springs, u)
    IN DrawOverlays(lined, worldUpdate.overlays.shapes, u)

\* handleIncomingEvent('world_update', data): the viewer processes the update made
\* of the step info the server returned last
ViewerUpdate(overlays) ==
    /\ updates < MaxUpdates
    /\ stepInfo # NoStepInfo
    /\ updates' = updates + 1
    /\ LET view == Update([coll2gfx |-> coll2gfx, viewport |-> viewport,
                           tempGFXs |-> tempGFXs],
                          WorldUpdate(stepInfo, overlays), updates + 1)
       IN /\ coll2gfx' = view.coll2gfx
          /\ viewport' = view.viewport
          /\ tempGFXs' = view.tempGFXs
    /\ UNCHANGED <<serverVars, toolVars, clientVars>>

\* SimuloViewerPIXI.reset(): every persistent graphic is taken off the viewport and
\* destroyed, the map from ids to graphics starts anew
Reset ==
    /\ coll2gfx # EmptyMap
    /\ viewport' = viewport \ {coll2gfx[id].gfx : id \in DOMAIN coll2gfx}
    /\ coll2gfx' = EmptyMap
    /\ UNCHANGED <<serverVars, toolVars, clientVars, tempGFXs, updates>>

\* ------------------------------------------------------------------ pointer
\* Lengths of the viewer's pointer handling are in units of 1 / Zoom of a world
\* unit, one screen pixel at the zoom the constructor sets.
Zoom == 7
\* `let speed = 2 / this.viewport.scale.y`, in those units
PanSpeed == 2
\* this.lookAt({ target: { x: -10.0, y: -30.0 }, zoom: 7.0 })
LookAtTarget == Vec(-10 * Zoom, -30 * Zoom)

\* the three callbacks the client plugin's constructor registers, and two of others
Forwarders == {"forwardDown", "forwardMove", "forwardUp"}
Callbacks == {"a", "b"}
PluginListeners ==
    [event \in {"pointerdown", "pointermove", "pointerup"} |->
        CASE event = "pointerdown" -> <<"forwardDown">>
          [] event = "pointermove" -> <<"forwardMove">>
          [] event = "pointerup" -> <<"forwardUp">>]

PointerEvents == {"pointerdown", "pointermove", "pointerup"}
\* events callers listen to; nothing is registered for "zoom" at first
ListenerEvents == {"pointermove", "zoom"}
\* screen positions of the pointer, from the middle of the screen
Positions == {Vec(0, 0), Vec(3, 2)}
Keys == {"h", "j", "k", "l"}

\* viewport.toWorld(x, y)
ToWorld(c, position) == Vec(c.x + position.x, c.y + position.y)

\* the data updateMouse hands to the listeners: { event: e ?? null, point: {x, -y} }
MouseData(c, position, e) ==
    LET point == ToWorld(c, position)
    IN [event |-> e, point |-> Vec(point.x, - point.y)]

\* what a callback of the client plugin emits when called with data; reading
\* e.event.button of a null event throws
Throws(callback, data) ==
    callback \in {"forwardDown", "forwardUp"} /\ data.event = <<>>

Emitted(callback, data) ==
    CASE callback = "forwardMove" ->
           << [event |-> "player_move", data |-> data.point] >>
      [] callback = "forwardDown" ->
           IF ClientEmits("pointerdown", data.event[1].button)
           THEN << [event |-> "player_down", data |-> data.point] >> ELSE <<>>
      [] callback = "forwardUp" ->
           IF ClientEmits("pointerup", data.event[1].button)
           THEN << [event |-> "player_up", data |-> data.point] >> ELSE <<>>
      [] OTHER -> <<>>

\* this.listeners[eventName].forEach((callback) => callback(data))
RECURSIVE CallAll(_, _, _)
CallAll(r, callbacks, data) ==
    IF callbacks = <<>> \/ r.threw THEN r
    ELSE LET callback == Head(callbacks)
             called == [r EXCEPT !.callbacks = Append(@, callback)]
         IN IF Throws(callback, data) THEN [called EXCEPT !.threw = TRUE]
            ELSE CallAll([called EXCEPT !.emits = @ \o Emitted(callback, data)],
                         Tail(callbacks), data)

\* updateMouse(eventName, position?, e?): position and e are <<>> when not given
UpdateMouse(eventName, position, e) ==
    LET at == IF position # <<>> THEN position[1] ELSE previousMousePos
        data == MouseData(center', at, e)
        r == CallAll([emits |-> emits, callbacks |-> <<>>, threw |-> FALSE],
                     IF eventName \in DOMAIN listeners THEN listeners[eventName]
                     ELSE <<>>,
                     data)
    IN /\ previousMousePos' = at
       /\ emits' = r.emits
       /\ dispatched' = [event |-> e, callbacks |-> r.callbacks, threw |-> r.threw]

\* the viewport's "pointermove" / "pointerdown" / "pointerup": a raw event at a
\* screen position, with a button
ViewportPointer(eventName, position, button) ==
    /\ Len(emits) < MaxEmits
    /\ center' = center
    /\ UpdateMouse(eventName, <<position>>, << [button |-> button] >>)
    /\ UNCHANGED <<serverVars, toolVars, viewerVars, listeners, panInputs, toolBarVars>>

\* the pan key a key event sets or clears
PanKey(key) ==
    CASE key = "h" -> "left" [] key = "j" -> "down" [] key = "k" -> "up"
      [] key = "l" -> "right"

\* canvas 'keydown' and 'keyup'
KeyDown(key) ==
    /\ panInputs' = [panInputs EXCEPT ![PanKey(key)] = TRUE]
    /\ UNCHANGED <<serverVars, toolVars, viewerVars, listeners, previousMousePos,
                   center, emits, dispatched, toolBarVars>>

KeyUp(key) ==
    /\ panInputs' = [panInputs EXCEPT ![PanKey(key)] = FALSE]
    /\ UNCHANGED <<serverVars, toolVars, viewerVars, listeners, previousMousePos,
                   center, emits, dispatched, toolBarVars>>

\* the direction the interval callback pans in
PanX(inputs) == IF inputs.right THEN 1 ELSE IF inputs.left THEN -1 ELSE 0
PanY(inputs) == IF inputs.up THEN -1 ELSE IF inputs.down THEN 1 ELSE 0

Abs(n) == IF n < 0 THEN - n ELSE n

\* the setInterval callback: pan by the keys held, then a pointermove without a
\* raw event at the previous mouse position
MouseInterval ==
    /\ Len(emits) < MaxEmits
    /\ LET x == PanX(panInputs) * PanSpeed
           y == PanY(panInputs) * PanSpeed
       IN /\ (x # 0 \/ y # 0) =>
                Abs(center.x - LookAtTarget.x) + Abs(center.y - LookAtTarget.y)
                   < MaxPans * PanSpeed
          /\ center' = IF x # 0 \/ y # 0 THEN Vec(center.x + x, center.y + y)
                       ELSE center
    /\ UpdateMouse("pointermove", <<>>, <<>>)
    /\ UNCHANGED <<serverVars, toolVars, viewerVars, listeners, panInputs, toolBarVars>>

\* ------------------------------------------------------------------ listeners
\* Array.prototype.indexOf, from 0; -1 when absent
IndexOf(seq, x) ==
    IF \E i \in DOMAIN seq : seq[i] = x
    THEN (CHOOSE i \in DOMAIN seq : seq[i] = x /\ \A j \in 1..(i - 1) : seq[j] # x) - 1
    ELSE -1

\* seq.splice(start, 1): a negative start counts from the end
Splice(seq, start) ==
    LET from == IF start < 0
                THEN (IF Len(seq) + start < 0 THEN 0 ELSE Len(seq) + start)
                ELSE (IF start > Len(seq) THEN Len(seq) ELSE start)
    IN SubSeq(seq, 1, from) \o SubSeq(seq, from + 2, Len(seq))

\* SimuloViewerPIXI.on(event, callback)
On(event, callback) ==
    /\ event \in DOMAIN listeners => Len(listeners[event]) < MaxListeners
    /\ listeners' = Put(listeners, event,
                        Append(IF event \in DOMAIN listeners THEN listeners[event]
                               ELSE <<>>, callback))
    /\ UNCHANGED <<serverVars, toolVars, viewerVars, previousMousePos, center,
                   panInputs, emits, dispatched, toolBarVars>>

\* SimuloViewerPIXI.off(event, callback)
Off(event, callback) ==
    /\ listeners' = IF event \notin DOMAIN listeners THEN listeners
                    ELSE [listeners EXCEPT
                            ![event] = Splice(@, IndexOf(@, callback))]
    /\ UNCHANGED <<serverVars, toolVars, viewerVars, previousMousePos, center,
                   panInputs, emits, dispatched, toolBarVars>>

\* ------------------------------------------------------------------ tool bar
\* the texts a fetch of an SVG url can give
Texts == {"", "<svg/>"}
\* if (this.cachedImages[url]) return this.cachedImages[url];
Cached(images, url) == url \in DOMAIN images /\ images[url] # ""
\* fetch(url), counted
Fetch(counts, url) ==
    Put(counts, url, IF url \in DOMAIN counts THEN counts[url] + 1 ELSE 1)

\* the tools a 'tools' event lists: { name, icon, description, id }
Tool(id) == [id |-> id, icon |-> id \o ".svg"]
ToolLists == {<<Tool("drag")>>, <<Tool("drag"), Tool("spring")>>}

\* the div updateToolBar makes for a tool, known by the call that made it
ToolElement(call, tool, toolID) ==
    [call |-> call, tool |-> tool.id, active |-> toolID = tool.id]

\* The loop of updateToolBar from its i-th tool on, over the record r of the
\* plugin's toolBar, toolElements, cachedImages and suspended calls. fetchSVG of a
\* cached icon gives its result before any other event is handled; for another
\* icon the call is suspended until the fetch returns. `fetched` says the i-th
\* tool's icon has just arrived.
RECURSIVE UpdateToolBarFrom(_, _, _, _, _, _)
UpdateToolBarFrom(r, call, tools, toolID, i, fetched) ==
    IF i > Len(tools) THEN r
    ELSE IF fetched \/ Cached(r.cachedImages, tools[i].icon)
    THEN LET toolElement == ToolElement(call, tools[i], toolID)
         IN UpdateToolBarFrom(
                [r EXCEPT !.toolBar = Append(@, toolElement),
                          !.toolElements = Put(@, tools[i].id, toolElement)],
                call, tools, toolID, i + 1, FALSE)
    ELSE [r EXCEPT !.fetches = Fetch(@, tools[i].icon),
                   !.pending = @ \cup {[call |-> call, tools |-> tools,
                                         toolID |-> toolID, index |-> i]}]

ClientPlugin ==
    [toolBar |-> toolBar, toolElements |-> toolElements,
     cachedImages |-> cachedImages, pending |-> pending, fetches |-> fetches]

CommitToolBar(r) ==
    /\ toolBar' = r.toolBar
    /\ toolElements' = r.toolElements
    /\ cachedImages' = r.cachedImages
    /\ pending' = r.pending
    /\ fetches' = r.fetches

\* this.toolBar.innerHTML = ''; this.toolElements = {};
Cleared(r) == [r EXCEPT !.toolBar = <<>>, !.toolElements = EmptyMap]

\* handleIncomingEvent('tools', { tools, tool }): updateToolBar(tools, tool) up to
\* its first suspension
ToolsEvent(tools, toolID) ==
    /\ toolBars < MaxToolBars
    /\ toolBars' = toolBars + 1
    /\ lastTools' = <<tools>>
    /\ barsShown' = TRUE
    /\ CommitToolBar(UpdateToolBarFrom(Cleared(ClientPlugin), toolBars + 1, tools,
                                       toolID, 1, FALSE))
    /\ UNCHANGED <<serverVars, toolVars, viewerVars, pointerVars, cursorVars>>

\* the fetch a suspended updateToolBar call waits for returns: fetchSVG caches the
\* text, the call goes on to its next suspension or its end
FetchReturns(p, text) ==
    /\ p \in pending
    /\ CommitToolBar(
          UpdateToolBarFrom([ClientPlugin EXCEPT
                               !.cachedImages = Put(@, p.tools[p.index].icon, text),
                               !.pending = @ \ {p}],
                            p.call, p.tools, p.toolID, p.index, TRUE))
    /\ UNCHANGED <<serverVars, toolVars, viewerVars, pointerVars, toolBars, lastTools,
                   barsShown, cursorVars>>

\* what a 'player_tool_success' event carries: a tool's id, or one no tool has
ToolData == Tools \cup {"none"}

\* element is the very div toolElements keeps under id
IsElementOf(element, elements, id) ==
    /\ id \in DOMAIN elements
    /\ elements[id].call = element.call
    /\ elements[id].tool = element.tool

\* handleIncomingEvent('player_tool_success', data): every element toolElements
\* keeps gets 'active' if it is kept under data and loses it if not; the tool bar
\* shows those same elements
PlayerToolSuccess(data) ==
    /\ toolElements' = [id \in DOMAIN toolElements |->
                           [toolElements[id] EXCEPT !.active = (id = data)]]
    /\ toolBar' = [i \in DOMAIN toolBar |->
                      IF \E id \in DOMAIN toolElements :
                            IsElementOf(toolBar[i], toolElements, id)
                      THEN [toolBar[i] EXCEPT
                              !.active = IsElementOf(toolBar[i], toolElements, data)]
                      ELSE toolBar[i]]
    /\ UNCHANGED <<serverVars, toolVars, viewerVars, pointerVars, cachedImages,
                   pending, toolBars, lastTools, barsShown, fetches, cursorVars>>

\* ------------------------------------------------------------------ cursor
\* the constructor's this.setColorCursor('./assets/textures/cursor_new.svg', ...)
CursorImage == "cursor_new.svg"
\* images setColorCursor is called for: the cursor's, and one that is a tool's icon
CursorImages == {CursorImage, "drag.svg"}

\* setColorCursor(image, fillColor): with the image cached the body's cursor is set
\* at once, else the image is fetched and the call suspended
SetColorCursor(image) ==
    /\ cursorCalls < MaxCursors
    /\ cursorCalls' = cursorCalls + 1
    /\ IF Cached(cachedImages, image)
       THEN /\ bodyCursor' = <<image>>
            /\ UNCHANGED <<fetches, cursors>>
       ELSE /\ fetches' = Fetch(fetches, image)
            /\ cursors' = cursors \cup {[call |-> cursorCalls + 1, image |-> image]}
            /\ UNCHANGED bodyCursor
    /\ UNCHANGED <<serverVars, toolVars, viewerVars, pointerVars, toolBar,
                   toolElements, cachedImages, pending, toolBars, lastTools,
                   barsShown>>

\* the fetch a suspended setColorCursor call waits for returns: fetchSVG caches the
\* text, the recoloured image becomes the body's cursor
CursorFetchReturns(c, text) ==
    /\ c \in cursors
    /\ cursors' = cursors \ {c}
    /\ cachedImages' = Put(cachedImages, c.image, text)
    /\ bodyCursor' = <<c.image>>
    /\ UNCHANGED <<serverVars, toolVars, viewerVars, pointerVars, toolBar,
                   toolElements, pending, toolBars, lastTools, barsShown, fetches,
                   cursorCalls>>

Init ==
    /\ world = "null"
    /\ bodies = <<>>
    /\ colliders = <<>>
    /\ changedContents = EmptyMap
    /\ currentIDs = EmptyMap
    /\ springs = <<>>
    /\ springDescs = EmptyMap
    /\ lastOp = "new"
    /\ lastError = ""
    /\ lastId = ""
    /\ stepInfo = NoStepInfo
    /\ tickLog = <<>>
    /\ solverMoves = 0
    /\ allocLog = EmptyMap
    /\ emitted = {}
    /\ fresh = <<>>
    /\ removed = {}
    /\ drains = <<>>
    /\ created = 0
    /\ allocs = 0
    /\ removals = 0
    /\ sets = 0
    /\ players = EmptyMap
    /\ toolCalls = <<>>
    /\ tempGFXs = <<>>
    /\ viewport = {}
    /\ coll2gfx = EmptyMap
    /\ updates = 0
    /\ listeners = PluginListeners
    /\ previousMousePos = Vec(0, 0)
    /\ center = LookAtTarget
    /\ panInputs = [up |-> FALSE, left |-> FALSE, down |-> FALSE, right |-> FALSE]
    /\ emits = <<>>
    /\ dispatched = [event |-> <<>>, callbacks |-> <<>>, threw |-> FALSE]
    /\ toolBar = <<>>
    /\ toolElements = EmptyMap
    /\ cachedImages = EmptyMap
    /\ fetches = Fetch(EmptyMap, CursorImage)
    /\ cursors = {[call |-> 0, image |-> CursorImage]}
    /\ cursorCalls = 0
    /\ bodyCursor = <<>>
    /\ pending = {}
    /\ toolBars = 0
    /\ lastTools = <<>>
    /\ barsShown = FALSE

Next ==
    \/ InitWorld
    \/ \E rectangle \in RectangleInputs : CreateRectangle(rectangle)
    \/ \E circle \in CircleInputs : CreateCircle(circle)
    \/ \E polygon \in PolygonInputs : CreatePolygon(polygon)
    \/ \E i \in DOMAIN colliders : RemoveCollider(i)
    \/ \E container \in Containers, absolute \in BOOLEAN : Allocate(container, absolute)
    \/ \E spring \in SpringInputs : AddSpring(spring)
    \/ \E id \in DOMAIN springDescs, property \in Properties :
          \E value \in SetterValues(property) \cup Misbehaving :
              SetSpring(id, property, value)
    \/ \E id \in DOMAIN springDescs : DestroySpring(id)
    \/ \E motion \in Motions, ms \in Durations : Step(motion, ms)
    \/ \E player \in Players, tool \in Tools : PlayerJoin(player, tool)
    \/ \E player \in Players, button \in Buttons : PlayerDown(player, button)
    \/ \E player \in Players : PlayerMove(player)
    \/ \E player \in Players, button \in Buttons : PlayerUp(player, button)
    \/ \E player \in Players, tool \in Tools : PlayerTool(player, tool)
    \/ \E player \in Players : PlayerLeave(player)
    \/ \E overlays \in OverlayInputs : ViewerUpdate(overlays)
    \/ \E capsule \in CapsuleInputs : PushCollider(capsule)
    \/ \E eventName \in PointerEvents, position \in Positions, button \in Buttons :
          ViewportPointer(eventName, position, button)
    \/ \E key \in Keys : KeyDown(key)
    \/ \E key \in Keys : KeyUp(key)
    \/ MouseInterval
    \/ \E event \in ListenerEvents, callback \in Callbacks : On(event, callback)
    \/ \E event \in ListenerEvents, callback \in Callbacks : Off(event, callback)
    \/ \E tools \in ToolLists, toolID \in Tools : ToolsEvent(tools, toolID)
    \/ \E p \in pending, text \in Texts : FetchReturns(p, text)
    \/ \E image \in CursorImages : SetColorCursor(image)
    \/ \E c \in cursors, text \in Texts : CursorFetchReturns(c, text)
    \/ Reset
    \/ \E data \in ToolData : PlayerToolSuccess(data)

Spec == Init /\ [][Next]_vars

\* the world of shapes: creation, removal, step
NextWorld ==
    \/ InitWorld
    \/ \E rectangle \in RectangleInputs : CreateRectangle(rectangle)
    \/ \E circle \in CircleInputs : CreateCircle(circle)
    \/ \E polygon \in PolygonInputs : CreatePolygon(polygon)
    \/ \E i \in DOMAIN colliders : RemoveCollider(i)
    \/ \E motion \in Motions, ms \in Durations : Step(motion, ms)

SpecWorld == Init /\ [][NextWorld]_vars

\* the identifier registry: every operation that allocates
NextIds ==
    \/ InitWorld
    \/ \E rectangle \in RectangleInputs : CreateRectangle(rectangle)
    \/ \E circle \in CircleInputs : CreateCircle(circle)
    \/ \E polygon \in PolygonInputs : CreatePolygon(polygon)
    \/ \E container \in Containers, absolute \in BOOLEAN : Allocate(container, absolute)
    \/ \E spring \in SpringInputs : AddSpring(spring)

SpecIds == Init /\ [][NextIds]_vars

\* the springs: addition, removal, step
NextSprings ==
    \/ InitWorld
    \/ \E spring \in SpringInputs : AddSpring(spring)
    \/ \E id \in DOMAIN springDescs : DestroySpring(id)
    \/ \E motion \in Motions, ms \in Durations : Step(motion, ms)

SpecSprings == Init /\ [][NextSprings]_vars

\* the spring handles: addition, setters, removal, step (of a world at rest)
NextHandles ==
    \/ InitWorld
    \/ \E spring \in StretchedSprings : AddSpring(spring)
    \/ \E id \in DOMAIN springDescs, property \in PropertyKinds :
          \E value \in SetterValues(property) : SetSpring(id, property, value)
    \/ \E id \in DOMAIN springDescs : DestroySpring(id)
    \/ \E ms \in Durations : Step("rest", ms)

SpecHandles == Init /\ [][NextHandles]_vars

\* the callbacks of a spring at work: impulse callbacks that throw or step the server
NextCallbacks ==
    \/ InitWorld
    \/ \E spring \in StretchedSprings : AddSpring(spring)
    \/ \E id \in DOMAIN springDescs, property \in Impulses, value \in Misbehaving :
          SetSpring(id, property, value)
    \/ \E motion \in Motions, ms \in Durations : Step(motion, ms)

SpecCallbacks == Init /\ [][NextCallbacks]_vars

\* the spring forces: springs, a new target length, step
NextForces ==
    \/ InitWorld
    \/ \E spring \in StretchedSprings : AddSpring(spring)
    \/ \E id \in DOMAIN springDescs, value \in SetterValues("targetLength") :
          SetSpring(id, "targetLength", value)
    \/ \E motion \in Motions, ms \in Durations : Step(motion, ms)

SpecForces == Init /\ [][NextForces]_vars

\* the tool protocol: the players' inputs and the calls the tools get
NextTools ==
    \/ \E player \in Players, tool \in Tools : PlayerJoin(player, tool)
    \/ \E player \in Players, button \in Buttons : PlayerDown(player, button)
    \/ \E player \in Players : PlayerMove(player)
    \/ \E player \in Players, button \in Buttons : PlayerUp(player, button)
    \/ \E player \in Players, tool \in Tools : PlayerTool(player, tool)
    \/ \E player \in Players : PlayerLeave(player)

SpecTools == Init /\ [][NextTools]_vars

\* the viewer: the server's updates, with overlays, drawn
NextViewer ==
    \/ InitWorld
    \/ \E spring \in StretchedSprings : AddSpring(spring)
    \/ \E motion \in Motions, ms \in Durations : Step(motion, ms)
    \/ \E overlays \in OverlayInputs : ViewerUpdate(overlays)

SpecViewer == Init /\ [][NextViewer]_vars

\* the registry with several springs in it: additions, removals, steps at rest
NextRegistry ==
    \/ InitWorld
    \/ \E spring \in StretchedSprings : AddSpringWithin(spring, MaxRegistry)
    \/ \E id \in DOMAIN springDescs : DestroySpring(id)
    \/ \E ms \in Durations : Step("rest", ms)

SpecRegistry == Init /\ [][NextRegistry]_vars

\* shapes of every kind a collider can have: created, pushed by a caller, stepped
NextKinds ==
    \/ InitWorld
    \/ \E rectangle \in RectangleInputs : CreateRectangle(rectangle)
    \/ \E circle \in CircleInputs : CreateCircle(circle)
    \/ \E capsule \in CapsuleInputs : PushCollider(capsule)
    \/ \E motion \in Motions, ms \in Durations : Step(motion, ms)

SpecKinds == Init /\ [][NextKinds]_vars

\* allocations of absolute ids, many of them, in two containers
NextPaths ==
    \E container \in Paths : AllocateWithin(container, TRUE, MaxPathAllocs)

SpecPaths == Init /\ [][NextPaths]_vars

\* the pointer: raw events, pan keys, the interval's synthetic moves
NextPointer ==
    \/ \E eventName \in PointerEvents, position \in Positions, button \in Buttons :
          ViewportPointer(eventName, position, button)
    \/ \E key \in Keys : KeyDown(key)
    \/ \E key \in Keys : KeyUp(key)
    \/ MouseInterval

SpecPointer == Init /\ [][NextPointer]_vars

\* the viewer's listener lists: registrations, removals, events
NextListeners ==
    \/ \E event \in ListenerEvents, callback \in Callbacks : On(event, callback)
    \/ \E event \in ListenerEvents, callback \in Callbacks : Off(event, callback)
    \/ \E position \in Positions : ViewportPointer("pointermove", position, 0)

SpecListeners == Init /\ [][NextListeners]_vars

\* the tool bar: 'tools' events and the icon fetches they wait for
NextToolBar ==
    \/ \E tools \in ToolLists, toolID \in Tools : ToolsEvent(tools, toolID)
    \/ \E p \in pending, text \in Texts : FetchReturns(p, text)

SpecToolBar == Init /\ [][NextToolBar]_vars

\* the viewer's persistent graphics: shapes made with fresh and with supplied ids,
\* steps, updates, resets
NextShapes ==
    \/ InitWorld
    \/ \E rectangle \in RectangleInputs : CreateRectangle(rectangle)
    \/ \E motion \in Motions, ms \in Durations : Step(motion, ms)
    \/ \E overlays \in OverlayInputs : ViewerUpdate(overlays)
    \/ Reset

SpecShapes == Init /\ [][NextShapes]_vars

\* the active tool of the tool bar: 'tools' events, their icon fetches, and
\* 'player_tool_success' events
NextActive ==
    \/ \E tools \in ToolLists, toolID \in Tools : ToolsEvent(tools, toolID)
    \/ \E p \in pending, text \in Texts : FetchReturns(p, text)
    \/ \E data \in ToolData : PlayerToolSuccess(data)

SpecActive == Init /\ [][NextActive]_vars

\* the image cache: every caller of fetchSVG and the fetches they wait for
NextFetch ==
    \/ \E tools \in ToolLists, toolID \in Tools : ToolsEvent(tools, toolID)
    \/ \E p \in pending, text \in Texts : FetchReturns(p, text)
    \/ \E image \in CursorImages : SetColorCursor(image)
    \/ \E c \in cursors, text \in Texts : CursorFetchReturns(c, text)

SpecFetch == Init /\ [][NextFetch]_vars

\* ================================================================== claims
Creations == {"addRectangle", "addCircle", "addPolygon"}
Stepped == lastOp = "step" /\ lastError = ""
IdOf(bs, collider) == bs[collider.parent].userData.id
ImpulseCalls(log, id) ==
    {k \in DOMAIN log : log[k].call \in Impulses /\ log[k].spring = id}

\* C1: under any interleaving of shape creations, spring additions and getID calls,
\* the identifiers getID has returned for one container are pairwise distinct: none
\* is returned a second time.
C1_NeverReused ==
    \A c \in DOMAIN allocLog :
        \A i \in DOMAIN allocLog[c], j \in DOMAIN allocLog[c] :
            i # j => allocLog[c][i] # allocLog[c][j]

\* six allocations in "/" (init's four shapes, a created shape or a spring, ...),
\* the last one by a direct getID call
C1_Witness ==
    /\ "/" \in DOMAIN allocLog
    /\ Len(allocLog["/"]) >= 6
    /\ lastOp = "getID"
    /\ lastId = allocLog["/"][Len(allocLog["/"])]

\* C2 (as claimed): the shapeTransforms of every update has, for every live collider,
\* an entry under its id holding its body's pose, and no entry under the id of a
\* collider that was removed from the live set.
C2_TransformsOfLiveColliders ==
    Stepped =>
        LET transforms == stepInfo.delta.shapeTransforms
        IN /\ \A i \in DOMAIN colliders :
                /\ IdOf(bodies, colliders[i]) \in DOMAIN transforms
                /\ transforms[IdOf(bodies, colliders[i])]
                     = Transform(bodies[colliders[i].parent])
           /\ \A c \in removed : IdOf(bodies, c) \notin DOMAIN transforms

\* C3: a successful step returns the whole pending map as shapeContent, and a
\* successful step that directly follows a successful step returns an empty one.
C3_DrainTwice ==
    [][ (lastOp' = "step" /\ lastError' = "") =>
          /\ stepInfo'.delta.shapeContent = changedContents
          /\ Stepped => stepInfo'.delta.shapeContent = EmptyMap ]_vars

\* two steps in a row, the first of which delivered changes
C3_Witness ==
    /\ Stepped
    /\ Len(drains) = 2
    /\ drains[1] > 0
    /\ drains[2] = 0

\* C4 (as claimed): the changes a step delivers are exactly the changes recorded
\* since the step before it: each recorded change is in the shapeContent of the first
\* step after it (none dropped), and nothing else is (none delivered again).
C4_EachChangeOnce ==
    [][ (lastOp' = "step" /\ lastError' = "") =>
          LET delivered == stepInfo'.delta.shapeContent
          IN {delivered[id] : id \in DOMAIN delivered} = {r.content : r \in Range(fresh)}
      ]_vars

\* C5 (as claimed): a successful creation appends the new collider to the live set
\* and makes its content pending under its id, and the next step delivers that
\* content under that id.
C5_CreatedThenDelivered ==
    [][ /\ (lastOp' \in Creations /\ lastError' = "") =>
             LET coll == colliders'[Len(colliders')]
                 id == IdOf(bodies', coll)
             IN /\ colliders' = Append(colliders, coll)
                /\ id \in DOMAIN changedContents'
                /\ <<changedContents'[id]>> = GetShapeContent(bodies', coll)
        /\ (lastOp' = "step" /\ lastError' = "") =>
             \A r \in Range(fresh) :
                 /\ r.id \in DOMAIN stepInfo'.delta.shapeContent
                 /\ stepInfo'.delta.shapeContent[r.id] = r.content ]_vars

\* C6: every id in the shapeTransforms of an update has had its content emitted, in
\* the shapeContent of that update or of an earlier one.
C6_ContentBeforeTransform ==
    Stepped => DOMAIN stepInfo.delta.shapeTransforms \subseteq emitted

\* an update whose transforms cover a shape created after init
C6_Witness ==
    /\ Stepped
    /\ Cardinality(DOMAIN stepInfo.delta.shapeTransforms) >= 5
    /\ stepInfo.delta.shapeContent = EmptyMap

\* C7: a creation called while the world is null throws 'init world first' and
\* leaves the counters, the bodies, the live colliders and the pending content alone.
C7_CreateBeforeInit ==
    [][ (world = "null" /\ lastOp' \in Creations) =>
          /\ lastError' = NotInitialized
          /\ UNCHANGED <<currentIDs, allocLog, bodies, colliders, changedContents>> ]_vars

C7_Witness ==
    /\ world = "null"
    /\ lastOp \in Creations
    /\ lastError = NotInitialized
    /\ created > 0

\* C8: a step called while the world is null throws 'init world first' having
\* made no call (no impulse callback, no world.step) and drained nothing.
C8_StepBeforeInit ==
    [][ (world = "null" /\ lastOp' = "step") =>
          /\ lastError' = NotInitialized
          /\ tickLog' = <<>>
          /\ UNCHANGED <<changedContents, bodies, stepInfo>> ]_vars

\* a failed step with a spring in the registry
C8_Witness ==
    /\ world = "null"
    /\ lastOp = "step"
    /\ lastError = NotInitialized
    /\ springs # <<>>

\* C9 (as claimed): an addPolygon that fails for want of a convex hull leaves no
\* partial entity: bodies, live colliders, pending content and counters are as before.
C9_NoPartialPolygon ==
    [][ (lastOp' = "addPolygon" /\ lastError' = InvalidGeometry) =>
          UNCHANGED <<bodies, colliders, changedContents, currentIDs>> ]_vars

\* C10: a spring whose two world attachment points coincide when step applies the
\* spring forces has neither impulse callback invoked in that step.
C10_ZeroDistanceNoImpulse ==
    [][ (lastOp' = "step" /\ lastError' = "") =>
          \A id \in Range(springs) :
              LET info == SpringInfo(bodies, springDescs[id])
              IN info.pointA = info.pointB => ImpulseCalls(tickLog', id) = {} ]_vars

\* a step with a live spring that made no impulse call
C10_Witness ==
    /\ Stepped
    /\ springs # <<>>
    /\ tickLog = << [call |-> "world.step"] >>

\* a force [vec, p, q, s], standing for vec * (p + q * sqrt(s)) / s, is the zero vector
IsZeroImpulse(force) ==
    \/ force.vec = Vec(0, 0)
    \/ force.p = 0 /\ force.q = 0
    \/ \E d \in 0..force.s : d * d = force.s /\ force.p + force.q * d = 0

\* C11: in every step, each live spring whose ends are apart gets its two impulse
\* callbacks called with forces whose parts without damping are stiffness * stretch
\* on A and -stiffness * stretch on B; and when the distance equals targetLength and
\* both end velocities are zero, both impulses are the zero vector.
C11_AntisymmetricAndZeroAtRest ==
    [][ (lastOp' = "step" /\ lastError' = "") =>
          \A id \in Range(springs) :
              LET spring == springDescs[id]
                  seg == SpringInfo(bodies, spring)
                  springVector == Sub(seg.pointB, seg.pointA)
                  s == Magnitude2(springVector)
                  velA == GetBodyVelocity(bodies, spring.getBodyAVelocity)
                  velB == GetBodyVelocity(bodies, spring.getBodyBVelocity)
                  called == ImpulseCalls(tickLog', id)
              IN s # 0 =>
                   \E a \in called, b \in called :
                       /\ tickLog'[a].call = "applyBodyAImpulse"
                       /\ tickLog'[b].call = "applyBodyBImpulse"
                       /\ tickLog'[a].impulse.p + spring.damping * Dot(springVector, velA)
                            = spring.stiffness * s
                       /\ tickLog'[a].impulse.q = - spring.stiffness * spring.targetLength
                       /\ tickLog'[b].impulse.p + spring.damping * Dot(springVector, velB)
                            = - (spring.stiffness * s)
                       /\ tickLog'[b].impulse.q = spring.stiffness * spring.targetLength
                       /\ (/\ s = spring.targetLength * spring.targetLength
                           /\ velA = Vec(0, 0)
                           /\ velB = Vec(0, 0))
                          => /\ IsZeroImpulse(tickLog'[a].impulse)
                             /\ IsZeroImpulse(tickLog'[b].impulse) ]_vars

\* a step that called back with zero impulses for a stiff spring at its target length
C11_Witness ==
    /\ Stepped
    /\ \E k \in DOMAIN tickLog :
          /\ tickLog[k].call = "applyBodyBImpulse"
          /\ IsZeroImpulse(tickLog[k].impulse)
          /\ tickLog[k].impulse.s = 25
          /\ springDescs[tickLog[k].spring].stiffness = 50
          /\ springDescs[tickLog[k].spring].targetLength = 5

\* C12 (as claimed): in every step of an initialised world, each live spring whose
\* ends are apart has its force applied exactly once (one call of each impulse
\* callback), and no impulse callback is called after a world.step() of that step.
C12_SpringsOnceBeforeSolver ==
    [][ (world = "World" /\ lastOp' = "step") =>
          /\ \A id \in Range(springs) :
                LET seg == SpringInfo(bodies, springDescs[id])
                    called == ImpulseCalls(tickLog', id)
                IN seg.pointA # seg.pointB =>
                     /\ Cardinality({k \in called :
                                       tickLog'[k].call = "applyBodyAImpulse"}) = 1
                     /\ Cardinality({k \in called :
                                       tickLog'[k].call = "applyBodyBImpulse"}) = 1
          /\ \A k \in DOMAIN tickLog', j \in DOMAIN tickLog' :
                (tickLog'[k].call \in Impulses /\ j < k)
                   => tickLog'[j].call # "world.step" ]_vars

\* C13 (as claimed): no step() begins while a step() is running: the calls a step
\* makes, its callbacks included, contain no call of step().
C13_NoReentrantTick ==
    \A k \in DOMAIN tickLog : tickLog[k].call # "step"

\* C14: a playerDown delivered to a tool for a player is followed by a playerUp to
\* that tool for that player before any playerDown is delivered to another tool for
\* the player, and before the player is gone: a switch of tool or a leave with the
\* input held delivers the playerUp itself.
C14_SyntheticUpFirst ==
    /\ \A i \in DOMAIN toolCalls, j \in DOMAIN toolCalls :
          (/\ i < j
           /\ toolCalls[i].call = "playerDown"
           /\ toolCalls[j].call = "playerDown"
           /\ toolCalls[j].player = toolCalls[i].player
           /\ toolCalls[j].tool # toolCalls[i].tool)
          => \E k \in (i + 1)..(j - 1) :
                 /\ toolCalls[k].call = "playerUp"
                 /\ toolCalls[k].player = toolCalls[i].player
                 /\ toolCalls[k].tool = toolCalls[i].tool
    /\ \A i \in DOMAIN toolCalls :
          (toolCalls[i].call = "playerDown" /\ toolCalls[i].player \notin DOMAIN players)
          => \E k \in (i + 1)..Len(toolCalls) :
                 /\ toolCalls[k].call = "playerUp"
                 /\ toolCalls[k].player = toolCalls[i].player
                 /\ toolCalls[k].tool = toolCalls[i].tool

\* a tool was switched away from with the input held, and the next tool was pressed
C14_Witness ==
    \E i \in DOMAIN toolCalls, j \in DOMAIN toolCalls :
        /\ i < j
        /\ toolCalls[i].call = "playerUp"
        /\ toolCalls[i].synthetic
        /\ toolCalls[j].call = "playerDown"
        /\ toolCalls[j].player = toolCalls[i].player
        /\ toolCalls[j].tool # toolCalls[i].tool

\* C15 (as claimed): once a spring is removed from the registry, a read of any
\* property through its handle yields nothing (not found), not the descriptor's value.
C15_InertAfterRemoval ==
    \A id \in DOMAIN springDescs :
        id \notin Range(springs) =>
            \A property \in Properties : GetProperty(springDescs, id, property) = <<>>

\* the graphics shown that are not the graphics of a shape
Transients(shown, shapes) == shown \ {shapes[id].gfx : id \in DOMAIN shapes}

\* C16: after the viewer has processed an update, the transient graphics it shows
\* are exactly the ones it made for that update, one line per entry of the update's
\* springs and then one shape per entry of its overlays.shapes; none of an earlier
\* update is still shown.
C16_TransientsOfThisUpdateOnly ==
    [][ \A overlays \in OverlayInputs :
          ViewerUpdate(overlays) =>
            LET segments == stepInfo.springs
                shapes == overlays.shapes
                n == Len(segments)
            IN /\ Len(tempGFXs') = n + Len(shapes)
               /\ Transients(viewport', coll2gfx')
                    = {tempGFXs'[i].gfx : i \in DOMAIN tempGFXs'}
               /\ Cardinality(Transients(viewport', coll2gfx')) = n + Len(shapes)
               /\ \A i \in 1..n :
                     /\ tempGFXs'[i].gfx.kind = "line"
                     /\ tempGFXs'[i].from
                          = Vec(segments[i].pointA.x, - segments[i].pointA.y)
                     /\ tempGFXs'[i].to
                          = Vec(segments[i].pointB.x, - segments[i].pointB.y)
               /\ \A i \in 1..Len(shapes) :
                     /\ tempGFXs'[n + i].gfx.kind = "overlay"
                     /\ tempGFXs'[n + i].content = shapes[i].content
               /\ \A i \in DOMAIN tempGFXs : tempGFXs[i].gfx \notin viewport' ]_vars

\* a second update, processed while the lines and overlays of the first were shown
C16_Witness ==
    /\ updates = 2
    /\ tempGFXs # <<>>
    /\ \A i \in DOMAIN tempGFXs : tempGFXs[i].gfx.update = 2
    /\ \E i \in DOMAIN tempGFXs : tempGFXs[i].gfx.kind = "line"
    /\ \E i \in DOMAIN tempGFXs : tempGFXs[i].gfx.kind = "overlay"
    /\ Cardinality(viewport) > Len(tempGFXs)

\* the counter of a container; a container never allocated in counts from 0
Counter(ids, container) == IF container \in DOMAIN ids THEN ids[container] ELSE 0

\* C17: a getID call in a container returns the container followed by the
\* container's counter (the bare counter when not absolute) and leaves the counter
\* one higher; counters start at 0, never go down, and an allocation in one
\* container leaves every other container's counter alone, so the n-th id
\* (n from 0) a container hands out, to any caller, is container + n.
C17_NthAllocation ==
    [][ /\ \A c \in Containers : Counter(currentIDs', c) >= Counter(currentIDs, c)
        /\ \A c \in DOMAIN allocLog' :
              /\ Counter(currentIDs', c) = Len(allocLog'[c])
              /\ \A n \in 0..(Len(allocLog'[c]) - 1) :
                    allocLog'[c][n + 1] \in {c \o ToString(n), ToString(n)}
        /\ \A c \in Containers, absolute \in BOOLEAN :
              Allocate(c, absolute) =>
                LET n == Counter(currentIDs, c)
                IN /\ lastId' = IF absolute THEN c \o ToString(n) ELSE ToString(n)
                   /\ Counter(currentIDs', c) = n + 1
                   /\ \A d \in Containers \ {c} :
                         Counter(currentIDs', d) = Counter(currentIDs, d) ]_vars

\* the first allocation in "/1/", made after "/" has handed out four ids or more
C17_Witness ==
    /\ lastOp = "getID"
    /\ lastId = "/1/0"
    /\ Counter(currentIDs, "/1/") = 1
    /\ Counter(currentIDs, "/") >= 4

C19_TickRunsToCompletion ==
    [][ (world = "World" /\ lastOp' = "step") =>
          /\ lastError' = ""
          /\ tickLog' # <<>>
          /\ tickLog'[Len(tickLog')].call = "world.step"
          /\ changedContents' = EmptyMap ]_vars

\* C20: a setter called on the handle of a live spring leaves the registry's entry
\* of that id with the new value of the property (the spring stays live, its other
\* properties as they were), and a step computes each live spring's impulses from
\* the registry's entry as the setters left it.
C20_SetterReachesRegistry ==
    [][ /\ \A id \in Range(springs), property \in Properties :
              \A value \in SetterValues(property) :
                  SetSpring(id, property, value) =>
                      /\ id \in Range(springs')
                      /\ GetProperty(springDescs', id, property) = <<value>>
                      /\ \A other \in Properties \ {property} :
                            GetProperty(springDescs', id, other)
                              = GetProperty(springDescs, id, other)
        /\ (lastOp' = "step" /\ lastError' = "") =>
              \A id \in Range(springs) :
                  LET impulses == ApplySpringForce(bodies, id, springDescs[id])
                      called == [k \in DOMAIN tickLog' |-> tickLog'[k]]
                  IN \A n \in DOMAIN impulses :
                        \E k \in ImpulseCalls(tickLog', id) : called[k] = impulses[n] ]_vars

\* a step after a setter changed a live spring's stiffness: the impulses of that
\* step are the ones the new stiffness gives, not the ones of the stiffness the
\* spring was added with
C20_Witness ==
    /\ Stepped
    /\ sets > 0
    /\ \E id \in Range(springs) :
          /\ springDescs[id].stiffness = 20
          /\ ImpulseCalls(tickLog, id) # {}
          /\ \A k \in ImpulseCalls(tickLog, id) :
                tickLog[k].impulse
                  # ApplySpringForce(bodies, id,
                                     [springDescs[id] EXCEPT !.stiffness = 50])
                      [IF tickLog[k].call = "applyBodyAImpulse" THEN 1 ELSE 2].impulse

\* C21: destroy() of a spring takes its id, and no other, out of the registry and
\* leaves the other springs' entries and their order as they were; a step that
\* begins after it calls no impulse callback of a removed spring and returns one
\* segment for each spring still in the registry, none for a removed one.
C21_RemovalDeletesOneEntry ==
    [][ /\ \A id \in DOMAIN springDescs :
              DestroySpring(id) =>
                  /\ id \notin Range(springs')
                  /\ springs' = SelectSeq(springs, LAMBDA other : other # id)
                  /\ Range(springs') = Range(springs) \ {id}
                  /\ springDescs' = springDescs
        /\ (lastOp' = "step" /\ lastError' = "") =>
              /\ \A id \in DOMAIN springDescs \ Range(springs) :
                    ImpulseCalls(tickLog', id) = {}
              /\ \A k \in DOMAIN tickLog' :
                    tickLog'[k].call \in Impulses => tickLog'[k].spring \in Range(springs)
              /\ stepInfo'.springs
                    = [i \in DOMAIN springs |-> SpringInfo(bodies', springDescs[springs[i]])]
       ]_vars

\* a step after one of two springs was removed: the one that stayed got its
\* impulses and its segment
C21_Witness ==
    /\ Stepped
    /\ Cardinality(DOMAIN springDescs) = 2
    /\ Len(springs) = 1
    /\ ImpulseCalls(tickLog, springs[1]) # {}
    /\ Len(stepInfo.springs) = 1

\* the shape kinds getShapeContent has a case for
KnownKinds == {Cuboid, Ball, ConvexPolygon}

\* C22 (as claimed): a step taken while a collider of a kind other than rectangle,
\* circle and convex polygon is among the colliders ends without an Error; that
\* collider's id has no entry in the contents, nor in the shapeContent and the
\* shapeTransforms of the returned delta; every collider of a known kind has its
\* entries as usual.
C22_UnknownKindSkipped ==
    Stepped =>
        \A i \in DOMAIN colliders :
            LET id == IdOf(bodies, colliders[i])
            IN IF colliders[i].shape.type \in KnownKinds
               THEN /\ id \in DOMAIN stepInfo.delta.shapeTransforms
                    /\ id \in DOMAIN GetShapeContents(colliders, bodies)
               ELSE /\ id \notin DOMAIN GetShapeContents(colliders, bodies)
                    /\ id \notin DOMAIN stepInfo.delta.shapeContent
                    /\ id \notin DOMAIN stepInfo.delta.shapeTransforms

\* C23 (as claimed): the shapeTransforms entry a step returns for a live collider
\* whose body is at (x, y) with rotation a is (x, -y) with angle -a.
C23_EmittedInRendererConvention ==
    Stepped =>
        \A i \in DOMAIN colliders :
            LET body == bodies[colliders[i].parent]
            IN stepInfo.delta.shapeTransforms[IdOf(bodies, colliders[i])]
                 = [x |-> body.translation.x, y |-> - body.translation.y,
                    angle |-> - body.rotation]

\* C23 (amended): every shapeTransforms entry a step returns is the pose of a live
\* collider's body with that id as the engine has it, (x, y) and a unchanged; the
\* viewer, applying an update, puts the graphic of each id it knows at (x, -y) with
\* rotation -a.
C23_ProjectedByViewer ==
    [][ /\ (lastOp' = "step" /\ lastError' = "") =>
              \A id \in DOMAIN stepInfo'.delta.shapeTransforms :
                  \E i \in DOMAIN colliders :
                      LET body == bodies'[colliders[i].parent]
                      IN /\ IdOf(bodies', colliders[i]) = id
                         /\ stepInfo'.delta.shapeTransforms[id]
                              = [x |-> body.translation.x, y |-> body.translation.y,
                                 angle |-> body.rotation]
        /\ \A overlays \in OverlayInputs :
              ViewerUpdate(overlays) =>
                  \A id \in DOMAIN coll2gfx' \cap DOMAIN stepInfo.delta.shapeTransforms :
                      LET data == stepInfo.delta.shapeTransforms[id]
                      IN /\ coll2gfx'[id].x = data.x
                         /\ coll2gfx'[id].y = - data.y
                         /\ coll2gfx'[id].rotation = - data.angle ]_vars

\* the viewer has placed the graphic of a body that is off the axis and turned
C23_Witness ==
    /\ updates > 0
    /\ \E i \in DOMAIN colliders :
          LET body == bodies[colliders[i].parent]
              id == IdOf(bodies, colliders[i])
          IN /\ body.translation.y # 0
             /\ body.rotation # 0
             /\ id \in DOMAIN coll2gfx
             /\ id \in DOMAIN stepInfo.delta.shapeTransforms
             /\ stepInfo.delta.shapeTransforms[id].y = body.translation.y
             /\ coll2gfx[id].y = - body.translation.y
             /\ coll2gfx[id].rotation = - body.rotation

\* C24: a creation given an identifier by its caller succeeds whether or not a
\* live shape or the counter already has that identifier, gives the new body and
\* the recorded content exactly that identifier, and leaves every container's
\* counter as it was.
C24_SuppliedIdVerbatim ==
    [][ \A rectangle \in RectangleInputs :
          (rectangle.id # Undefined /\ world # "null" /\ CreateRectangle(rectangle)) =>
              /\ lastError' = ""
              /\ currentIDs' = currentIDs
              /\ Len(colliders') = Len(colliders) + 1
              /\ IdOf(bodies', colliders'[Len(colliders')]) = rectangle.id
              /\ rectangle.id \in DOMAIN changedContents'
              /\ changedContents'[rectangle.id].id = rectangle.id ]_vars

\* a rectangle created with the id "/0" that init's ground plane got from the counter
C24_Witness ==
    /\ lastOp = "addRectangle"
    /\ lastError = ""
    /\ Cardinality({i \in DOMAIN colliders : IdOf(bodies, colliders[i]) = "/0"}) = 2
    /\ Counter(currentIDs, "/") = 4
    /\ "/0" \in Range(allocLog["/"])

\* C26: a spring that was removed from the registry is not in it after any later
\* operation, a setter call on its handle included, and no step calls its impulse
\* callbacks or returns a segment for it.
C26_RemovedStaysRemoved ==
    [][ /\ \A id \in DOMAIN springDescs \ Range(springs) : id \notin Range(springs')
        /\ (lastOp' = "step" /\ lastError' = "") =>
              /\ \A id \in DOMAIN springDescs \ Range(springs) :
                    ImpulseCalls(tickLog', id) = {}
              /\ Len(stepInfo'.springs) = Len(springs) ]_vars

\* a setter was called on the handle of a removed spring
C26_Witness ==
    /\ lastOp = "set"
    /\ \E id \in DOMAIN springDescs \ Range(springs) :
          springDescs[id] \notin StretchedSprings

\* C27 (as claimed): an id getID returned, absolute, in one container is never an
\* id it returned in another container.
C27_DistinctAcrossContainers ==
    \A c \in DOMAIN allocLog, d \in DOMAIN allocLog :
        c # d => Range(allocLog[c]) \cap Range(allocLog[d]) = {}

\* C28 (as claimed): the content recorded for a rectangle created with width w and
\* height h, which the next delta delivers, has width w and height h.
C28_RectangleDimensions ==
    [][ \A rectangle \in RectangleInputs :
          (world # "null" /\ CreateRectangle(rectangle)) =>
              LET id == IdOf(bodies', colliders'[Len(colliders')])
              IN /\ changedContents'[id].width = rectangle.width
                 /\ changedContents'[id].height = rectangle.height ]_vars

\* the point the client plugin emits for a pointer at a screen position, with the
\* camera at c
EmittedPoint(c, position) == Vec(c.x + position.x, - (c.y + position.y))

\* C25: a raw pointer-down or pointer-up of the viewer makes the client plugin emit
\* player_down or player_up exactly when its button is 0, a raw pointer-move makes
\* it emit player_move whatever the button, and so does every move of the interval,
\* which has no raw event; each emit carries the pointer's point in the world (y up),
\* for an interval's move the previous mouse position seen through the camera as
\* it is then. Nothing else is emitted.
C25_ForwardsPrimaryAndMoves ==
    [][ /\ \A eventName \in PointerEvents, position \in Positions, button \in Buttons :
              ViewportPointer(eventName, position, button) =>
                  emits' = emits \o
                      (CASE eventName = "pointermove" ->
                              << [event |-> "player_move",
                                  data |-> EmittedPoint(center, position)] >>
                         [] eventName = "pointerdown" /\ button = 0 ->
                              << [event |-> "player_down",
                                  data |-> EmittedPoint(center, position)] >>
                         [] eventName = "pointerup" /\ button = 0 ->
                              << [event |-> "player_up",
                                  data |-> EmittedPoint(center, position)] >>
                         [] OTHER -> <<>>)
        /\ MouseInterval =>
              emits' = Append(emits, [event |-> "player_move",
                                      data |-> EmittedPoint(center', previousMousePos)])
        /\ ~ dispatched'.threw ]_vars

\* a primary pointer-down was forwarded, and then a move of the interval, made
\* after the camera had panned away from where the pointer was seen
C25_Witness ==
    /\ Len(emits) = 2
    /\ emits[1].event = "player_down"
    /\ emits[2].event = "player_move"
    /\ dispatched.event = <<>>
    /\ center # LookAtTarget
    /\ previousMousePos # Vec(0, 0)
    /\ emits[2].data # emits[1].data

\* a list without the first occurrence of x
WithoutFirst(seq, x) ==
    IF \E i \in DOMAIN seq : seq[i] = x
    THEN LET i == CHOOSE i \in DOMAIN seq : seq[i] = x /\ \A j \in 1..(i - 1) : seq[j] # x
         IN SubSeq(seq, 1, i - 1) \o SubSeq(seq, i + 1, Len(seq))
    ELSE seq

\* C29 (as claimed): off(event, callback) of the viewer leaves every list of
\* listeners as it is when the callback is not registered for the event, and
\* otherwise takes that callback, once, out of the event's list and nothing else.
C29_OffRemovesOnlyThat ==
    [][ \A event \in ListenerEvents, callback \in Callbacks :
          Off(event, callback) =>
              /\ DOMAIN listeners' = DOMAIN listeners
              /\ \A other \in DOMAIN listeners :
                    listeners'[other] = IF other = event
                                        THEN WithoutFirst(listeners[other], callback)
                                        ELSE listeners[other] ]_vars

\* C30 (as claimed): when no updateToolBar call is suspended any more, the tool bar
\* has one element for each tool of the latest 'tools' event's list, in its order,
\* and no other, and toolElements maps exactly those tools' ids, each to its
\* element in the tool bar.
C30_ToolBarOfLatestList ==
    (pending = {} /\ lastTools # <<>>) =>
        LET tools == lastTools[1]
        IN /\ Len(toolBar) = Len(tools)
           /\ \A i \in DOMAIN tools : toolBar[i].tool = tools[i].id
           /\ DOMAIN toolElements = {tools[i].id : i \in DOMAIN tools}
           /\ \A id \in DOMAIN toolElements :
                 \E i \in DOMAIN toolBar : toolBar[i] = toolElements[id]

\* C31 (as claimed): fetchSVG makes at most one network fetch per url, whatever the
\* interleaving of its calls, and makes none for a url whose fetch has completed.
C31_OneFetchPerUrl ==
    [][ /\ \A url \in DOMAIN fetches' : fetches'[url] <= 1
        /\ \A url \in DOMAIN cachedImages : fetches'[url] = fetches[url] ]_vars

\* the persistent graphics among the ones shown: those made for a shape id
Persistents(shown) == {gfx \in shown : gfx.kind = "shape"}

\* C32: the persistent graphics on the viewport are at all times the graphics the
\* viewer keeps under its shape ids, one per id; an update adds the ids of its
\* shapeContent to the ids the viewer keeps, and for an id that had a graphic the
\* old graphic is off the viewport and a new one is shown in its place.
C32_OnePersistentPerId ==
    [][ /\ Persistents(viewport') = {coll2gfx'[id].gfx : id \in DOMAIN coll2gfx'}
        /\ \A id \in DOMAIN coll2gfx' :
              {gfx \in Persistents(viewport') : gfx.id = id} = {coll2gfx'[id].gfx}
        /\ \A overlays \in OverlayInputs :
              ViewerUpdate(overlays) =>
                LET shapeContent == stepInfo.delta.shapeContent
                    ids == {shapeContent[key].id : key \in DOMAIN shapeContent}
                IN /\ DOMAIN coll2gfx' = DOMAIN coll2gfx \cup ids
                   /\ \A id \in ids \cap DOMAIN coll2gfx :
                         /\ coll2gfx[id].gfx \notin viewport'
                         /\ coll2gfx'[id].gfx # coll2gfx[id].gfx
                   /\ \A id \in DOMAIN coll2gfx \ ids :
                         coll2gfx'[id].gfx = coll2gfx[id].gfx ]_vars

\* a second update brought content for "/0", which had a graphic of the first
\* update: the rectangle made with the supplied id "/0" after the ground plane
C32_Witness ==
    /\ updates = 2
    /\ "/0" \in DOMAIN coll2gfx
    /\ coll2gfx["/0"].gfx.update = 2
    /\ coll2gfx["/0"].content.type = "rectangle"
    /\ \E id \in DOMAIN coll2gfx : coll2gfx[id].gfx.update = 1
    /\ \E k \in DOMAIN stepInfo.delta.shapeContent :
          stepInfo.delta.shapeContent[k].id = "/0"
    /\ created = 1

\* C33 (as claimed): once the client has handled a 'player_tool_success' event
\* carrying t, the elements of the tool bar that are marked active are the ones of
\* tool t: every element of t is, no element of another tool is, and none is when
\* no tool has the id t.
C33_OnlySelectedToolActive ==
    [][ \A t \in ToolData :
          PlayerToolSuccess(t) =>
              \A i \in DOMAIN toolBar' :
                  toolBar'[i].active <=> (toolBar'[i].tool = t) ]_vars

====
